---------------------------- MODULE Spec2Model ----------------------------
(***************************************************************************)
(* Consent engine, basket engine and checkout finalizer of wot-is-gtm      *)
(* (js/consent.js, js/basket.js, js/basket-page.js), over a key-value      *)
(* store (localStorage) and the event stream (window.dataLayer).           *)
(*                                                                         *)
(* JavaScript runs every handler to completion, so each handler is one     *)
(* action; the order of its side effects is kept in last.fx.               *)
(***************************************************************************)
EXTENDS Integers, Sequences, FiniteSets, TLC

(***************************************************************************)
(* Bounds of the model                                                     *)
(***************************************************************************)
\* number of handlers that run in one behaviour
MaxOps == 3
\* largest quantity handed to setQuantity
MaxQty == 2
\* number of distinct values Math.random() yields for the transaction id
MaxTxId == 2

(***************************************************************************)
(* Numbers.  A JavaScript number holding money is the binary64 nearest to  *)
(* cents/100, displaced by ulp units of rounding error of the arithmetic   *)
(* that produced it.                                                       *)
(***************************************************************************)
Num(c) == [cents |-> c, ulp |-> 0]

\* binary64 products price * quantity of the catalogue, for quantities up
\* to 10, that fall below the nearest double of the decimal product
\* (29.99 * 7 = 209.92999999999998, 29.99 * 9 = 269.90999999999997)
InexactProducts == { <<2999, 7>>, <<2999, 9>> }

\* binary64 sums of two catalogue line values (29.99 * qa + 10 * qb, for
\* quantities up to 10) that fall below the nearest double of the decimal
\* sum (29.99 + 10 = 39.989999999999995, ...)
InexactSums ==
    { <<2999 * qa, 1000 * qb>> : qa \in {4, 7, 9}, qb \in 1..10 }
        \cup { <<2999, 1000 * qb>> : qb \in 1..3 }
        \cup { <<5998, 1000 * qb>> : qb \in 1..6 }
        \cup { <<23992, 1000 * qb>> : qb \in 2..10 }

\* item.price * item.quantity
FloatMul(price, q) ==
    [cents |-> price.cents * q,
     ulp   |-> IF <<price.cents, q>> \in InexactProducts THEN 0 - 1 ELSE 0]

\* sum + line
FloatAdd(x, y) ==
    [cents |-> x.cents + y.cents,
     ulp   |-> IF x.cents = 0 THEN y.ulp
               ELSE IF y.cents = 0 THEN x.ulp
               ELSE IF <<x.cents, y.cents>> \in InexactSums
                       \/ <<y.cents, x.cents>> \in InexactSums
               THEN 0 - 1 ELSE 0]

\* mutant: the total is returned without rounding
Round2Unrounded(x) == x

\* Math.round(total * 100) / 100
Round2(x) == [cents |-> x.cents, ulp |-> 0]

(***************************************************************************)
(* The catalogue (product cards of products.html, read by products.js)     *)
(***************************************************************************)
ItemIds == {"SKU-A", "SKU-B"}

PriceOf(id) == IF id = "SKU-A" THEN Num(2999) ELSE Num(1000)

NameOf(id) == IF id = "SKU-A" THEN "Product A" ELSE "Product B"

\* the product object the click handler builds: no item_category property
Product(id) ==
    [item_id |-> id, item_name |-> NameOf(id), item_category |-> "undefined",
     price |-> PriceOf(id)]

Products == { Product(id) : id \in ItemIds }

\* parseFloat of a missing or non-numeric data-item-price attribute
NaN == [cents |-> 0, ulp |-> 0, nan |-> TRUE]

isNaN(x) == "nan" \in DOMAIN x

\* product objects read from a card that lacks data-item-id (getAttribute
\* returns null), lacks data-item-name, or has no numeric data-item-price
MalformedProducts ==
    { [Product("SKU-A") EXCEPT !.item_id = ""],
      [Product("SKU-A") EXCEPT !.item_name = ""],
      [Product("SKU-B") EXCEPT !.price = NaN] }

(***************************************************************************)
(* The persisted store                                                     *)
(***************************************************************************)
BASKET_STORAGE_KEY == "gtm_basket"
ORDER_STORAGE_KEY == "gtm_last_order"
CONSENT_STORAGE_KEY == "gtm_consent_preferences"
CURRENCY == "EUR"

StoreKeys == {BASKET_STORAGE_KEY, ORDER_STORAGE_KEY, CONSENT_STORAGE_KEY}

\* getItem answers null for a key that is not set
Null == <<>>

\* JSON.stringify: the text that holds the value
JSONStringify(v) == <<[wellFormed |-> TRUE, value |-> v]>>

\* JSON.parse of a stored text; a text that is not JSON makes it throw
ParseThrows(text) == ~text[1].wellFormed
JSONParse(text) == text[1].value

(***************************************************************************)
(* Event stream entries                                                    *)
(***************************************************************************)
\* { ecommerce: null }
ClearEntry ==
    [kind |-> "clear", event |-> "", ecommerce |-> <<>>, command |-> "",
     consent |-> <<>>]

\* { event: name, ecommerce: payload }
CommerceEntry(name, payload) ==
    [kind |-> "event", event |-> name, ecommerce |-> <<payload>>,
     command |-> "", consent |-> <<>>]

\* gtag('consent', command, params) pushes its arguments object
GtagEntry(cmd, params) ==
    [kind |-> "gtag", event |-> "", ecommerce |-> <<>>, command |-> cmd,
     consent |-> <<params>>]

\* { event: 'consent_updated', consent_preferences: consent }
ConsentEntry(c) ==
    [kind |-> "event", event |-> "consent_updated", ecommerce |-> <<>>,
     command |-> "", consent |-> <<c>>]

Payload(value, items, tx) ==
    [currency |-> CURRENCY, value |-> value, items |-> items,
     transaction_id |-> tx]

(***************************************************************************)
(* The debug dashboard on a new document: dataLayerLoggedCount = 0, no     *)
(* panel; handed records every call of logDataLayerEvent of this document  *)
(* (stream position, entry, whether the log element existed), display the  *)
(* log element's entries, most recent first                                *)
(***************************************************************************)
DebugInit ==
    [count |-> 0, panel |-> FALSE, handed |-> <<>>, display |-> <<>>]

\* the log keeps the 20 most recent entries
LogLimit == 20

(***************************************************************************)
(* State                                                                   *)
(***************************************************************************)
VARIABLES
    store,           \* localStorage: key -> Null or <<text>>
    storageEnabled,  \* FALSE: every localStorage access throws
    dataLayer,       \* window.dataLayer of the current page context
    banner,          \* #consent-banner: "absent", "shown" or "fading"
    prefill,         \* pending pre-fill timers of the Cookie Settings button
    view,            \* basket.html: "basket" or "checkout" section shown
    debug,           \* the debug dashboard: polling offset, panel, log
    clock,           \* handlers run so far; new Date() reads it
    session,         \* what initializeConsent found, decisions since then
    addCalls,        \* add calls per item_id; only: no other basket mutation
    last             \* the handler that ran last, with its side effects

vars == <<store, storageEnabled, dataLayer, banner, prefill, view, debug,
          clock, session, addCalls, last>>

(***************************************************************************)
(* A handler's run: the store, the stream and the banner element it works  *)
(* on, its side effects in order (fx), whether an exception escaped it.    *)
(***************************************************************************)
Run0 == [store |-> store, dl |-> dataLayer, banner |-> banner,
         prefill |-> prefill, view |-> view, debug |-> debug, fx |-> <<>>,
         threw |-> FALSE, ret |-> <<>>]

Fx(op, key) == [op |-> op, key |-> key]

\* mutant: the entry is put in front of the stream (unshift)
PushFront(m, entry) ==
    IF m.threw THEN m
    ELSE [m EXCEPT !.dl = <<entry>> \o @,
                   !.fx = Append(@, Fx("push", IF entry.kind = "event"
                                               THEN entry.event
                                               ELSE entry.kind))]

\* window.dataLayer.push(entry)
Push(m, entry) ==
    IF m.threw THEN m
    ELSE [m EXCEPT !.dl = Append(@, entry),
                   !.fx = Append(@, Fx("push", IF entry.kind = "event"
                                               THEN entry.event
                                               ELSE entry.kind))]

\* localStorage.setItem inside try/catch: a failed write is logged only
TrySetItem(m, key, text, full) ==
    IF m.threw THEN m
    ELSE IF storageEnabled /\ ~full
    THEN [m EXCEPT !.store = [@ EXCEPT ![key] = text],
                   !.fx = Append(@, Fx("setItem", key))]
    ELSE [m EXCEPT !.fx = Append(@, Fx("setItemFailed", key))]

\* localStorage.removeItem outside any try: a failure escapes
RemoveItem(m, key) ==
    IF m.threw THEN m
    ELSE IF storageEnabled
    THEN [m EXCEPT !.store = [@ EXCEPT ![key] = Null],
                   !.fx = Append(@, Fx("removeItem", key))]
    ELSE [m EXCEPT !.threw = TRUE, !.fx = Append(@, Fx("throw", key))]

(***************************************************************************)
(* Basket state management                                                 *)
(***************************************************************************)
\* mutant: no fallback to [] when the saved text does not parse
getBasketNoCatch(st) ==
    IF ~storageEnabled THEN <<>>
    ELSE IF st[BASKET_STORAGE_KEY] = Null THEN <<>>
    ELSE JSONParse(st[BASKET_STORAGE_KEY])

\* try { saved ? JSON.parse(saved) : [] } catch { [] }
getBasket(st) ==
    IF ~storageEnabled THEN <<>>
    ELSE IF st[BASKET_STORAGE_KEY] = Null THEN <<>>
    ELSE IF ParseThrows(st[BASKET_STORAGE_KEY]) THEN <<>>
    ELSE JSONParse(st[BASKET_STORAGE_KEY])

saveBasket(m, basket, full) ==
    TrySetItem(m, BASKET_STORAGE_KEY, JSONStringify(basket), full)

\* mutant: the whole store is cleared (localStorage.clear())
clearBasketAll(m) ==
    IF m.threw THEN m
    ELSE IF storageEnabled
    THEN [m EXCEPT !.store = [k \in StoreKeys |-> Null],
                   !.fx = Append(@, Fx("removeItem", BASKET_STORAGE_KEY))]
    ELSE [m EXCEPT !.threw = TRUE,
                   !.fx = Append(@, Fx("throw", BASKET_STORAGE_KEY))]

clearBasket(m) == RemoveItem(m, BASKET_STORAGE_KEY)

RECURSIVE SumQuantity(_)
SumQuantity(basket) ==
    IF basket = <<>> THEN 0
    ELSE SumQuantity(SubSeq(basket, 1, Len(basket) - 1))
         + basket[Len(basket)].quantity

getBasketItemCount(st) == SumQuantity(getBasket(st))

\* basket.reduce(sum + item.price * item.quantity, 0), left to right
RECURSIVE SumValue(_)
SumValue(basket) ==
    IF basket = <<>> THEN Num(0)
    ELSE FloatAdd(SumValue(SubSeq(basket, 1, Len(basket) - 1)),
                  FloatMul(basket[Len(basket)].price,
                           basket[Len(basket)].quantity))

getBasketTotal(st) == Round2(SumValue(getBasket(st)))

\* index of the first row with this item_id, 0 when there is none
IndexOf(basket, id) ==
    IF \E i \in 1..Len(basket) : basket[i].item_id = id
    THEN CHOOSE i \in 1..Len(basket) :
            /\ basket[i].item_id = id
            /\ \A j \in 1..(i - 1) : basket[j].item_id # id
    ELSE 0

\* basket.filter(item => item.item_id !== itemId)
RECURSIVE FilterOut(_, _)
FilterOut(basket, id) ==
    IF basket = <<>> THEN <<>>
    ELSE LET rest == FilterOut(Tail(basket), id)
         IN IF Head(basket).item_id # id THEN <<Head(basket)>> \o rest
            ELSE rest

\* the items an event carries for the rows of a basket (item_category || '')
EventItem(row) ==
    [item_name |-> row.item_name, item_id |-> row.item_id,
     item_category |-> IF row.item_category = "undefined" THEN ""
                       ELSE row.item_category,
     price |-> row.price, quantity |-> row.quantity]

EventItems(basket) == [i \in 1..Len(basket) |-> EventItem(basket[i])]


(***************************************************************************)
(* Basket operations                                                       *)
(***************************************************************************)
\* mutant: the existing row is not looked for, every add pushes a row
AddedBasketAlwaysPush(basket, product) ==
    Append(basket,
           [item_id |-> product.item_id,
            item_name |-> product.item_name,
            item_category |-> IF product.item_category = "undefined"
                              THEN "" ELSE product.item_category,
            price |-> product.price,
            quantity |-> 1])

\* mutant: a new row is put in front of the existing rows (unshift)
AddedBasketFront(basket, product) ==
    LET existingIndex == IndexOf(basket, product.item_id)
    IN IF existingIndex > 0
       THEN [basket EXCEPT ![existingIndex].quantity = @ + 1]
       ELSE <<[item_id |-> product.item_id,
               item_name |-> product.item_name,
               item_category |-> IF product.item_category = "undefined"
                                 THEN "" ELSE product.item_category,
               price |-> product.price,
               quantity |-> 1]>> \o basket

\* the basket after the add: quantity += 1 on the row, or a new last row
AddedBasket(basket, product) ==
    LET existingIndex == IndexOf(basket, product.item_id)
    IN IF existingIndex > 0
       THEN [basket EXCEPT ![existingIndex].quantity = @ + 1]
       ELSE Append(basket,
                   [item_id |-> product.item_id,
                    item_name |-> product.item_name,
                    item_category |-> IF product.item_category = "undefined"
                                      THEN "" ELSE product.item_category,
                    price |-> product.price,
                    quantity |-> 1])

\* the add_to_cart event: the product as passed, quantity 1
AddToCartEntry(product) ==
    CommerceEntry("add_to_cart",
        Payload(product.price,
                << [item_name |-> product.item_name,
                    item_id |-> product.item_id,
                    item_category |-> product.item_category,
                    price |-> product.price,
                    quantity |-> 1] >>,
                <<>>))

\* mutant: the event is pushed without the clearing entry before it
addToBasketNoClear(m, product, full) ==
    LET basket == AddedBasket(getBasket(m.store), product)
        m1 == saveBasket(m, basket, full)
    IN Push(m1, AddToCartEntry(product))

\* mutant: the event carries the row as saved, with its new quantity
addToBasketRowQuantity(m, product, full) ==
    LET basket == AddedBasket(getBasket(m.store), product)
        m1 == saveBasket(m, basket, full)
        m2 == Push(m1, ClearEntry)
        row == basket[IndexOf(basket, product.item_id)]
    IN Push(m2, CommerceEntry("add_to_cart",
                    Payload(FloatMul(row.price, row.quantity),
                            << [item_name |-> row.item_name,
                                item_id |-> row.item_id,
                                item_category |-> product.item_category,
                                price |-> row.price,
                                quantity |-> row.quantity] >>,
                            <<>>)))

\* mutant: the events are pushed before the basket is saved
addToBasketPushFirst(m, product, full) ==
    LET basket == AddedBasket(getBasket(m.store), product)
        m1 == Push(m, ClearEntry)
        m2 == Push(m1, AddToCartEntry(product))
    IN saveBasket(m2, basket, full)

addToBasket(m, product, full) ==
    LET basket == AddedBasket(getBasket(m.store), product)
        m1 == saveBasket(m, basket, full)
        m2 == Push(m1, ClearEntry)
    IN Push(m2, AddToCartEntry(product))

\* mutant: the click handler passes the product on without validating it
addToBasketClickNoValidation(m, product, full) ==
    addToBasket(m, product, full)

\* the add-to-basket click handler: validate the product read from the
\* card, then addToBasket(product)
addToBasketClick(m, product, full) ==
    IF product.item_id = "" \/ product.item_name = "" \/ isNaN(product.price)
    THEN [m EXCEPT !.fx = Append(@, Fx("error", "Invalid product data"))]
    ELSE addToBasket(m, product, full)

\* mutant: the event reports one unit of the removed row
RemoveFromCartEntryUnitValue(removedItem) ==
    CommerceEntry("remove_from_cart",
        Payload(removedItem.price,
                <<[EventItem(removedItem) EXCEPT !.quantity = 1]>>, <<>>))

RemoveFromCartEntry(removedItem) ==
    CommerceEntry("remove_from_cart",
        Payload(FloatMul(removedItem.price, removedItem.quantity),
                <<EventItem(removedItem)>>, <<>>))

\* mutant: no early return when the item is not found
removeFromBasketNoGuard(m, itemId, full) ==
    LET basket == getBasket(m.store)
        i == IndexOf(basket, itemId)
        m1 == saveBasket(m, FilterOut(basket, itemId), full)
        m2 == Push(m1, ClearEntry)
    IN IF i = 0 THEN m2 ELSE Push(m2, RemoveFromCartEntry(basket[i]))

removeFromBasket(m, itemId, full) ==
    LET basket == getBasket(m.store)
        i == IndexOf(basket, itemId)
    IN IF i = 0
       THEN [m EXCEPT !.fx = Append(@, Fx("warn", itemId))]
       ELSE LET m1 == saveBasket(m, FilterOut(basket, itemId), full)
                m2 == Push(m1, ClearEntry)
            IN Push(m2, RemoveFromCartEntry(basket[i]))

\* mutant: only a negative quantity removes the row
updateBasketQuantityNegativeOnly(m, itemId, newQuantity, full) ==
    IF newQuantity < 0
    THEN removeFromBasket(m, itemId, full)
    ELSE LET basket == getBasket(m.store)
             i == IndexOf(basket, itemId)
         IN saveBasket(m,
                       IF i > 0
                       THEN [basket EXCEPT ![i].quantity = newQuantity]
                       ELSE basket,
                       full)

\* mutant: the loop has no test on item_id and sets every row
updateBasketQuantityAllRows(m, itemId, newQuantity, full) ==
    IF newQuantity <= 0
    THEN removeFromBasket(m, itemId, full)
    ELSE LET basket == getBasket(m.store)
         IN saveBasket(m,
                       [j \in 1..Len(basket) |->
                           [basket[j] EXCEPT !.quantity = newQuantity]],
                       full)

updateBasketQuantity(m, itemId, newQuantity, full) ==
    IF newQuantity <= 0
    THEN removeFromBasket(m, itemId, full)
    ELSE LET basket == getBasket(m.store)
             i == IndexOf(basket, itemId)
         IN saveBasket(m,
                       IF i > 0
                       THEN [basket EXCEPT ![i].quantity = newQuantity]
                       ELSE basket,
                       full)

\* the payload of begin_checkout and view_cart: all rows, the rounded total
BasketPayload(st) ==
    Payload(getBasketTotal(st), EventItems(getBasket(st)), <<>>)

\* mutant: the value is the float sum, not getBasketTotal()
pushBeginCheckoutUnrounded(m) ==
    Push(Push(m, ClearEntry),
         CommerceEntry("begin_checkout",
             Payload(SumValue(getBasket(m.store)),
                     EventItems(getBasket(m.store)), <<>>)))

pushBeginCheckout(m) ==
    Push(Push(m, ClearEntry),
         CommerceEntry("begin_checkout", BasketPayload(m.store)))

\* mutant: a page_view event is pushed before the view_cart entries
pushViewCartPageView(m) ==
    Push(Push(Push(m, [ClearEntry EXCEPT !.kind = "event",
                                         !.event = "page_view"]),
              ClearEntry),
         CommerceEntry("view_cart", BasketPayload(m.store)))

pushViewCart(m) ==
    Push(Push(m, ClearEntry),
         CommerceEntry("view_cart", BasketPayload(m.store)))

(***************************************************************************)
(* Checkout                                                                *)
(***************************************************************************)
\* the order object built from the basket read at the start of the call
OrderOf(st, transactionId) ==
    [transaction_id |-> transactionId,
     value |-> getBasketTotal(st),
     currency |-> CURRENCY,
     items |-> EventItems(getBasket(st))]

PurchaseEntry(order) ==
    CommerceEntry("purchase",
        Payload(order.value, order.items, <<order.transaction_id>>))

\* mutant: the basket is cleared before the order is built and pushed
pushPurchaseEventClearFirst(m, transactionId, full) ==
    LET m0 == clearBasket(m)
        order == OrderOf(m0.store, transactionId)
        m1 == TrySetItem(m0, ORDER_STORAGE_KEY, JSONStringify(order), full)
        m2 == Push(m1, ClearEntry)
        m3 == Push(m2, PurchaseEntry(order))
    IN IF m3.threw THEN m3 ELSE [m3 EXCEPT !.ret = <<order>>]

\* mutant: the order is built first, but the basket is cleared before the
\* order is saved and the purchase event pushed
pushPurchaseEventEarlyClear(m, transactionId, full) ==
    LET order == OrderOf(m.store, transactionId)
        m1 == clearBasket(m)
        m2 == TrySetItem(m1, ORDER_STORAGE_KEY, JSONStringify(order), full)
        m3 == Push(m2, ClearEntry)
        m4 == Push(m3, PurchaseEntry(order))
    IN IF m4.threw THEN m4 ELSE [m4 EXCEPT !.ret = <<order>>]

\* mutant: the order is saved after the basket is cleared, from the basket
\* read back at that point
pushPurchaseEventSaveAfterClear(m, transactionId, full) ==
    LET order == OrderOf(m.store, transactionId)
        m1 == Push(m, ClearEntry)
        m2 == Push(m1, PurchaseEntry(order))
        m3 == clearBasket(m2)
        m4 == TrySetItem(m3, ORDER_STORAGE_KEY,
                         JSONStringify(OrderOf(m3.store, transactionId)),
                         full)
    IN IF m4.threw THEN m4 ELSE [m4 EXCEPT !.ret = <<order>>]

\* mutant: an empty basket is not checked out
pushPurchaseEventGuarded(m, transactionId, full) ==
    IF getBasket(m.store) = <<>> THEN m
    ELSE LET order == OrderOf(m.store, transactionId)
             m1 == TrySetItem(m, ORDER_STORAGE_KEY, JSONStringify(order),
                              full)
             m2 == Push(m1, ClearEntry)
             m3 == Push(m2, PurchaseEntry(order))
             m4 == clearBasket(m3)
         IN IF m4.threw THEN m4 ELSE [m4 EXCEPT !.ret = <<order>>]

pushPurchaseEvent(m, transactionId, full) ==
    LET order == OrderOf(m.store, transactionId)
        m1 == TrySetItem(m, ORDER_STORAGE_KEY, JSONStringify(order), full)
        m2 == Push(m1, ClearEntry)
        m3 == Push(m2, PurchaseEntry(order))
        m4 == clearBasket(m3)
    IN IF m4.threw THEN m4 ELSE [m4 EXCEPT !.ret = <<order>>]

\* localStorage.removeItem(ORDER_STORAGE_KEY), outside any try
clearLastOrder(m) == RemoveItem(m, ORDER_STORAGE_KEY)

\* try { saved ? JSON.parse(saved) : null } catch { null }
getLastOrder(st) ==
    IF ~storageEnabled THEN Null
    ELSE IF st[ORDER_STORAGE_KEY] = Null THEN Null
    ELSE IF ParseThrows(st[ORDER_STORAGE_KEY]) THEN Null
    ELSE <<JSONParse(st[ORDER_STORAGE_KEY])>>

(***************************************************************************)
(* Consent engine                                                          *)
(***************************************************************************)
ConsentTypes ==
    {"ad_storage", "ad_user_data", "ad_personalization", "analytics_storage",
     "functionality_storage", "personalization_storage", "security_storage"}

UserTypes == ConsentTypes \ {"security_storage"}

\* a consent object: a value per property ("undefined": no such property)
\* and its timestamp property (0: none)
ConsentObject(types) == [types |-> types, timestamp |-> 0]

\* mutant: a head that grants analytics_storage by default
DefaultConsentAnalyticsGranted ==
    ConsentObject([t \in ConsentTypes |->
                      IF t \in {"security_storage", "analytics_storage"}
                      THEN "granted" ELSE "denied"])

\* gtag('consent', 'default', {...}) of every page's head
DefaultConsent ==
    ConsentObject([t \in ConsentTypes |->
                      IF t = "security_storage" THEN "granted" ELSE "denied"])

\* mutant: no fallback to null when the saved text does not parse
loadSavedConsentNoCatch(st) ==
    IF ~storageEnabled THEN Null
    ELSE IF st[CONSENT_STORAGE_KEY] = Null THEN Null
    ELSE <<JSONParse(st[CONSENT_STORAGE_KEY])>>

\* try { saved ? JSON.parse(saved) : null } catch { null }
loadSavedConsent(st) ==
    IF ~storageEnabled THEN Null
    ELSE IF st[CONSENT_STORAGE_KEY] = Null THEN Null
    ELSE IF ParseThrows(st[CONSENT_STORAGE_KEY]) THEN Null
    ELSE <<JSONParse(st[CONSENT_STORAGE_KEY])>>

\* mutant: the write is not wrapped in try/catch
saveConsentNoCatch(m, consent, now, full) ==
    IF storageEnabled /\ ~full
    THEN TrySetItem(m, CONSENT_STORAGE_KEY,
                    JSONStringify([consent EXCEPT !.timestamp = now]), full)
    ELSE [m EXCEPT !.threw = TRUE,
                   !.fx = Append(@, Fx("throw", CONSENT_STORAGE_KEY))]

\* { ...consent, timestamp: new Date().toISOString() }
saveConsent(m, consent, now, full) ==
    TrySetItem(m, CONSENT_STORAGE_KEY,
               JSONStringify([consent EXCEPT !.timestamp = now]), full)

\* mutant: the properties are passed on without the || 'denied'
UpdateParamsRaw(consent) ==
    ConsentObject([t \in ConsentTypes |->
                      IF t = "security_storage" THEN "undefined"
                      ELSE consent.types[t]])

\* the six properties of the update call, each consent.x || 'denied'
UpdateParams(consent) ==
    ConsentObject([t \in ConsentTypes |->
                      IF t = "security_storage" THEN "undefined"
                      ELSE IF consent.types[t] = "undefined" THEN "denied"
                      ELSE consent.types[t]])

\* mutant: a decision equal to the one of the last consent_updated event of
\* the stream is not announced again
applyConsentDeduplicated(m, consent) ==
    IF m.dl[Len(m.dl)] = ConsentEntry(consent)
    THEN m
    ELSE Push(Push(m, GtagEntry("update", UpdateParams(consent))),
              ConsentEntry(consent))

applyConsent(m, consent) ==
    Push(Push(m, GtagEntry("update", UpdateParams(consent))),
         ConsentEntry(consent))

allGranted ==
    ConsentObject([t \in ConsentTypes |->
                      IF t = "security_storage" THEN "undefined"
                      ELSE "granted"])

\* mutant: a reject-all that denies everything but analytics_storage
allDeniedButAnalytics ==
    ConsentObject([t \in ConsentTypes |->
                      IF t = "security_storage" THEN "undefined"
                      ELSE IF t = "analytics_storage" THEN "granted"
                      ELSE "denied"])

allDenied ==
    ConsentObject([t \in ConsentTypes |->
                      IF t = "security_storage" THEN "undefined"
                      ELSE "denied"])

Choice(checked) == IF checked THEN "granted" ELSE "denied"

\* mutant: ad_user_data follows the analytics checkbox
customConsentSplitAds(analyticsChecked, advertisingChecked, functionalityChecked, personalizationChecked) ==
    ConsentObject([t \in ConsentTypes |->
        CASE t \in {"analytics_storage", "ad_user_data"}
                -> Choice(analyticsChecked)
          [] t \in {"ad_storage", "ad_personalization"}
                -> Choice(advertisingChecked)
          [] t = "functionality_storage" -> Choice(functionalityChecked)
          [] t = "personalization_storage" -> Choice(personalizationChecked)
          [] OTHER -> "undefined"])

\* the object of the save-preferences handler: four checkboxes
customConsent(analyticsChecked, advertisingChecked, functionalityChecked, personalizationChecked) ==
    ConsentObject([t \in ConsentTypes |->
        CASE t = "analytics_storage" -> Choice(analyticsChecked)
          [] t \in {"ad_storage", "ad_user_data", "ad_personalization"}
                -> Choice(advertisingChecked)
          [] t = "functionality_storage" -> Choice(functionalityChecked)
          [] t = "personalization_storage" -> Choice(personalizationChecked)
          [] OTHER -> "undefined"])

\* decisions handed to applyConsent / saveConsent directly (consentDebug):
\* partial objects over analytics_storage and security_storage
DecisionInputs ==
    { ConsentObject([t \in ConsentTypes |->
          IF t = "analytics_storage" THEN a
          ELSE IF t = "security_storage" THEN s
          ELSE "undefined"]) :
      a \in {"granted", "denied", "undefined"},
      s \in {"granted", "denied", "undefined"} }

\* what the debug panel shows for a type of a consent object:
\* consentState[key] || (key === 'security_storage' ? 'granted' : 'denied')
ReadConsent(consent, t) ==
    IF consent.types[t] # "undefined" THEN consent.types[t]
    ELSE IF t = "security_storage" THEN "granted" ELSE "denied"

\* if (getElementById('consent-banner')) return; else create it
showConsentBanner(m) ==
    IF m.banner = "absent" THEN [m EXCEPT !.banner = "shown"] ELSE m

\* opacity 0 and a timer that removes the element after 300 ms; a pre-fill
\* timer (100 ms) that is pending when the fade starts expires before it
hideConsentBanner(m) ==
    IF m.threw \/ m.banner = "absent" THEN m
    ELSE IF m.banner = "fading" THEN m
    ELSE [m EXCEPT !.banner = "fading",
                   !.prefill = IF @ = {} THEN {} ELSE {"early"}]

\* the click handler of the Cookie Settings button: showConsentBanner, and
\* with a saved decision a 100 ms timer for the pre-fill; a timer set while
\* a banner fades ("late") may expire before or after the removal
cookieSettingsClick(m) ==
    LET saved == loadSavedConsent(m.store)
        m1 == showConsentBanner(m)
    IN IF saved # Null
       THEN [m1 EXCEPT !.prefill =
                @ \cup {IF m.banner = "fading" THEN "late" ELSE "early"}]
       ELSE m1

\* the pre-fill callback: getElementById('consent-analytics').checked = ...
\* throws a TypeError when the banner element is gone
prefillCallback(m, timer) ==
    IF m.banner = "absent"
    THEN [m EXCEPT !.prefill = @ \ {timer}, !.threw = TRUE,
                   !.fx = Append(@, Fx("throw", "consent-analytics"))]
    ELSE [m EXCEPT !.prefill = @ \ {timer}]

\* the consent state the tag runtime holds after the gtag consent calls of
\* the stream: each call sets the types it names
RECURSIVE ConsentStateOf(_)
ConsentStateOf(dl) ==
    IF dl = <<>>
    THEN ConsentObject([t \in ConsentTypes |-> "undefined"])
    ELSE LET before == ConsentStateOf(SubSeq(dl, 1, Len(dl) - 1))
             e == dl[Len(dl)]
         IN IF e.kind = "gtag"
            THEN ConsentObject([t \in ConsentTypes |->
                     IF e.consent[1].types[t] = "undefined"
                     THEN before.types[t]
                     ELSE e.consent[1].types[t]])
            ELSE before

(***************************************************************************)
(* Read operations, as exported to the console                             *)
(***************************************************************************)
ReadOps ==
    {"loadDecision", "getBasketSnapshot", "getBasketTotal", "getItemCount",
     "getLastOrder"}

\* mutant: getLastOrder removes the order it has read
readCallConsumeOrder(m, name) ==
    IF name = "getLastOrder"
    THEN [RemoveItem(m, ORDER_STORAGE_KEY) EXCEPT
             !.ret = <<getLastOrder(m.store)>>]
    ELSE IF name = "loadDecision"
    THEN [m EXCEPT !.ret = <<loadSavedConsent(m.store)>>]
    ELSE IF name = "getBasketSnapshot"
    THEN [m EXCEPT !.ret = <<getBasket(m.store)>>]
    ELSE IF name = "getBasketTotal"
    THEN [m EXCEPT !.ret = <<getBasketTotal(m.store)>>]
    ELSE [m EXCEPT !.ret = <<getBasketItemCount(m.store)>>]

\* a call of loadSavedConsent, getBasket, getBasketTotal, getBasketItemCount
\* or getLastOrder: the value read is returned, nothing is written or pushed
readCall(m, name) ==
    IF name = "loadDecision"
    THEN [m EXCEPT !.ret = <<loadSavedConsent(m.store)>>]
    ELSE IF name = "getBasketSnapshot"
    THEN [m EXCEPT !.ret = <<getBasket(m.store)>>]
    ELSE IF name = "getBasketTotal"
    THEN [m EXCEPT !.ret = <<getBasketTotal(m.store)>>]
    ELSE IF name = "getItemCount"
    THEN [m EXCEPT !.ret = <<getBasketItemCount(m.store)>>]
    ELSE [m EXCEPT !.ret = <<getLastOrder(m.store)>>]

(***************************************************************************)
(* Actions                                                                 *)
(***************************************************************************)
NoArg == [item |-> "", product |-> <<>>, quantity |-> 0, consent |-> <<>>,
          full |-> FALSE, pre |-> <<>>]

\* the handler's run becomes the new state
Finish(m, op, arg) ==
    /\ clock < MaxOps
    /\ clock' = clock + 1
    /\ store' = m.store
    /\ banner' = m.banner
    /\ prefill' = m.prefill
    /\ view' = m.view
    /\ debug' = m.debug
    /\ dataLayer' = m.dl
    /\ last' = [op |-> op, prev |-> last.op, arg |-> arg, fx |-> m.fx,
                threw |-> m.threw, ret |-> m.ret]

Init ==
    /\ store = [k \in StoreKeys |-> Null]
    /\ storageEnabled = TRUE
    /\ dataLayer = <<GtagEntry("default", DefaultConsent)>>
    /\ banner = "shown"
    /\ prefill = {}
    /\ view = "none"
    /\ debug = DebugInit
    /\ clock = 0
    /\ session = [saved |-> FALSE, decided |-> FALSE]
    /\ addCalls = [count |-> [id \in ItemIds |-> 0], only |-> TRUE]
    /\ last = [op |-> "load", prev |-> "", arg |-> NoArg, fx |-> <<>>,
               threw |-> FALSE, ret |-> <<>>]

\* a click on a card's add-to-basket button; addCalls counts the calls of
\* addToBasket
Add(product, full) ==
    /\ Finish(addToBasketClick(Run0, product, full), "add",
              [NoArg EXCEPT !.item = product.item_id,
                            !.product = <<product>>, !.full = full,
                            !.pre = getBasket(store)])
    /\ addCalls' = IF dataLayer' # dataLayer /\ product.item_id \in ItemIds
                   THEN [addCalls EXCEPT !.count[product.item_id] = @ + 1]
                   ELSE addCalls
    /\ UNCHANGED <<storageEnabled, session>>

Remove(itemId, full) ==
    /\ Finish(removeFromBasket(Run0, itemId, full), "remove",
              [NoArg EXCEPT !.item = itemId, !.full = full,
                            !.pre = getBasket(store)])
    /\ addCalls' = [addCalls EXCEPT !.only = FALSE]
    /\ UNCHANGED <<storageEnabled, session>>

SetQuantity(itemId, n, full) ==
    /\ Finish(updateBasketQuantity(Run0, itemId, n, full), "setQuantity",
              [NoArg EXCEPT !.item = itemId, !.quantity = n, !.full = full,
                            !.pre = getBasket(store)])
    /\ addCalls' = [addCalls EXCEPT !.only = FALSE]
    /\ UNCHANGED <<storageEnabled, session>>

BeginCheckout ==
    /\ Finish(pushBeginCheckout(Run0), "beginCheckout",
              [NoArg EXCEPT !.pre = getBasket(store)])
    /\ UNCHANGED <<storageEnabled, session, addCalls>>

ViewCart ==
    /\ Finish(pushViewCart(Run0), "viewCart",
              [NoArg EXCEPT !.pre = getBasket(store)])
    /\ UNCHANGED <<storageEnabled, session, addCalls>>

Finalize(transactionId, full) ==
    /\ Finish(pushPurchaseEvent(Run0, transactionId, full), "finalize",
              [NoArg EXCEPT !.full = full, !.pre = getBasket(store)])
    /\ addCalls' = [addCalls EXCEPT !.only = FALSE]
    /\ UNCHANGED <<storageEnabled, session>>

\* the thank-you page discards the order it has displayed
ClearLastOrder ==
    /\ Finish(clearLastOrder(Run0), "clearLastOrder", NoArg)
    /\ UNCHANGED <<storageEnabled, session, addCalls>>

\* a read operation called from the console (basketDebug, consentDebug)
ReadCall(name) ==
    /\ Finish(readCall(Run0, name), name, NoArg)
    /\ UNCHANGED <<storageEnabled, session, addCalls>>

\* mutant: the handler saves the decision before it applies it
DecideSaveFirst(consent, op, full) ==
    /\ banner # "absent"
    /\ Finish(hideConsentBanner(applyConsent(saveConsent(Run0, consent,
                                                         clock + 1, full),
                                             consent)),
              op, [NoArg EXCEPT !.consent = <<consent>>, !.full = full])
    /\ session' = [session EXCEPT !.decided = TRUE]
    /\ UNCHANGED <<storageEnabled, addCalls>>

\* a decision handler of the banner: applyConsent, saveConsent, hide
Decide(consent, op, full) ==
    /\ banner # "absent"
    /\ Finish(hideConsentBanner(saveConsent(applyConsent(Run0, consent),
                                            consent, clock + 1, full)),
              op, [NoArg EXCEPT !.consent = <<consent>>, !.full = full])
    /\ session' = [session EXCEPT !.decided = TRUE]
    /\ UNCHANGED <<storageEnabled, addCalls>>

AcceptAll(full) == Decide(allGranted, "acceptAll", full)

RejectAll(full) == Decide(allDenied, "rejectAll", full)

SavePreferences(an, ad, fn, pe, full) ==
    Decide(customConsent(an, ad, fn, pe), "savePreferences", full)

\* consentDebug.apply(d) then consentDebug.save(d)
ApplyDecision(d, full) ==
    /\ Finish(saveConsent(applyConsent(Run0, d), d, clock + 1, full),
              "applyDecision",
              [NoArg EXCEPT !.consent = <<d>>, !.full = full])
    /\ session' = [session EXCEPT !.decided = TRUE]
    /\ UNCHANGED <<storageEnabled, addCalls>>

\* the Cookie Settings button
CookieSettings ==
    /\ Finish(cookieSettingsClick(Run0), "cookieSettings", NoArg)
    /\ UNCHANGED <<storageEnabled, session, addCalls>>

\* the 300 ms timer of hideConsentBanner: banner.remove()
BannerRemoveTimeout ==
    /\ banner = "fading"
    /\ "early" \notin prefill
    /\ Finish([Run0 EXCEPT !.banner = "absent"], "bannerTimeout", NoArg)
    /\ UNCHANGED <<storageEnabled, session, addCalls>>

\* the 100 ms timer of the Cookie Settings click handler
PrefillTimeout(timer) ==
    /\ timer \in prefill
    /\ timer = "late" => "early" \notin prefill
    /\ Finish(prefillCallback(Run0, timer), "prefillTimeout", NoArg)
    /\ UNCHANGED <<storageEnabled, session, addCalls>>

Pages == {"products", "basket"}

\* mutant: with nothing saved the all-denied state is applied as well
initializeConsentApplyDenied(m) ==
    LET savedConsent == loadSavedConsent(m.store)
    IN IF savedConsent # Null
       THEN applyConsent(m, savedConsent[1])
       ELSE showConsentBanner(applyConsent(m, allDenied))

\* mutant: the saved decision is not applied, the banner is shown again
initializeConsentIgnoreSaved(m) == showConsentBanner(m)

\* mutant: the saved decision is applied and saved again
initializeConsentResave(m) ==
    LET savedConsent == loadSavedConsent(m.store)
    IN IF savedConsent # Null
       THEN saveConsent(applyConsent(m, savedConsent[1]), savedConsent[1],
                        clock + 1, FALSE)
       ELSE showConsentBanner(m)

\* the saved decision is applied, or else the banner is shown
initializeConsent(m) ==
    LET savedConsent == loadSavedConsent(m.store)
    IN IF savedConsent # Null
       THEN applyConsent(m, savedConsent[1])
       ELSE showConsentBanner(m)

\* a page load: a new document and stream, the head's consent default,
\* consent.js, and on basket.html the DOMContentLoaded handler of
\* basket-page.js
PageLoad(page) ==
    LET m0 == [Run0 EXCEPT !.dl = <<>>, !.banner = "absent", !.prefill = {},
                           !.view = IF page = "basket" THEN "basket"
                                    ELSE "none",
                           !.debug = DebugInit]
        m1 == Push(m0, GtagEntry("default", DefaultConsent))
        m2 == initializeConsent(m1)
        m3 == IF page = "basket" THEN pushViewCart(m2) ELSE m2
    IN /\ Finish(m3, "load", NoArg)
       /\ session' = [saved |-> loadSavedConsent(store) # Null,
                      decided |-> FALSE]
       /\ UNCHANGED <<storageEnabled, addCalls>>

\* a quantity whose line value at 29.99 is not the nearest double of the
\* decimal product
InexactQuantity == 7

QuantityInputs == ((0 - 1)..MaxQty) \cup {InexactQuantity}

TransactionIds == 0..(MaxTxId - 1)

BasketNext ==
    \/ \E p \in Products : Add(p, FALSE)
    \/ \E p \in MalformedProducts : Add(p, FALSE)
    \/ \E id \in ItemIds : Remove(id, FALSE)
    \/ \E id \in ItemIds, n \in QuantityInputs : SetQuantity(id, n, FALSE)
    \/ BeginCheckout
    \/ ViewCart
    \/ \E t \in TransactionIds : Finalize(t, FALSE)
    \/ ClearLastOrder

ConsentNext ==
    \/ AcceptAll(FALSE)
    \/ RejectAll(FALSE)
    \/ \E an, ad, fn, pe \in BOOLEAN : SavePreferences(an, ad, fn, pe, FALSE)
    \/ \E d \in DecisionInputs : ApplyDecision(d, FALSE)
    \/ CookieSettings
    \/ BannerRemoveTimeout
    \/ \E timer \in {"early", "late"} : PrefillTimeout(timer)

\* the basket engine and the checkout finalizer, across page loads and
\* between the accept-all and reject-all decisions of the banner
Next ==
    \/ BasketNext
    \/ AcceptAll(FALSE)
    \/ RejectAll(FALSE)
    \/ \E page \in Pages : PageLoad(page)

Spec == Init /\ [][Next]_vars

\* the consent engine, across page loads
NextConsent ==
    \/ ConsentNext
    \/ \E page \in Pages : PageLoad(page)

ConsentSpec == Init /\ [][NextConsent]_vars

\* a persisted text that JSON.parse rejects: the text of v, cut short
CorruptText(v) == <<[wellFormed |-> FALSE, value |-> v]>>

\* what a corrupt value under each key was meant to hold
CorruptValues ==
    [k \in StoreKeys |->
        CASE k = BASKET_STORAGE_KEY
               -> CorruptText(AddedBasket(<<>>, Product("SKU-A")))
          [] k = CONSENT_STORAGE_KEY
               -> CorruptText([allGranted EXCEPT !.timestamp = 1])
          [] OTHER
               -> CorruptText(OrderOf([j \in StoreKeys |-> Null], 0))]

\* the stores a first page load may find: every key absent or corrupt
FaultyStores ==
    { [k \in StoreKeys |-> IF k \in S THEN CorruptValues[k] ELSE Null] :
         S \in SUBSET StoreKeys }

\* a first page load in a browser whose localStorage may refuse every access
\* or may hold corrupt values
FaultInit ==
    /\ storageEnabled \in BOOLEAN
    /\ store \in FaultyStores
    /\ storageEnabled = FALSE => store = [k \in StoreKeys |-> Null]
    /\ LET m == initializeConsent(
                    Push([store |-> store, dl |-> <<>>, banner |-> "absent",
                          prefill |-> {}, view |-> "none",
                          debug |-> DebugInit, fx |-> <<>>,
                          threw |-> FALSE,
                          ret |-> <<>>],
                         GtagEntry("default", DefaultConsent)))
       IN /\ dataLayer = m.dl
          /\ banner = m.banner
    /\ prefill = {}
    /\ view = "none"
    /\ debug = DebugInit
    /\ clock = 0
    /\ session = [saved |-> loadSavedConsent(store) # Null, decided |-> FALSE]
    /\ addCalls = [count |-> [id \in ItemIds |-> 0], only |-> TRUE]
    /\ last = [op |-> "load", prev |-> "", arg |-> NoArg, fx |-> <<>>,
               threw |-> FALSE, ret |-> <<>>]

\* the operations with writes that may fail (quota exceeded)
FaultNext ==
    \/ \E p \in Products, full \in BOOLEAN : Add(p, full)
    \/ \E id \in ItemIds, full \in BOOLEAN : Remove(id, full)
    \/ \E id \in ItemIds, n \in QuantityInputs, full \in BOOLEAN :
          SetQuantity(id, n, full)
    \/ BeginCheckout
    \/ ViewCart
    \/ \E t \in TransactionIds, full \in BOOLEAN : Finalize(t, full)
    \/ \E full \in BOOLEAN : AcceptAll(full)
    \/ \E full \in BOOLEAN : RejectAll(full)
    \/ \E name \in ReadOps : ReadCall(name)
    \/ \E page \in Pages : PageLoad(page)

FaultSpec == FaultInit /\ [][FaultNext]_vars

(***************************************************************************)
(* The basket page: the basket contents with their controls, or the        *)
(* checkout form, within one page context                                  *)
(***************************************************************************)
\* a basket row as addToBasket builds it, with quantity q
BasketRow(id, q) ==
    [AddedBasket(<<>>, Product(id))[1] EXCEPT !.quantity = q]

\* the baskets the page may find when it loads
PageBaskets ==
    {<<>>}
        \cup { <<BasketRow(a, qa)>> : a \in ItemIds, qa \in 1..MaxQty }
        \cup UNION { { <<BasketRow(a, qa), BasketRow(b, qb)>> :
                          b \in ItemIds \ {a},
                          qa \in 1..MaxQty, qb \in 1..MaxQty } :
                      a \in ItemIds }

\* basket.html has just loaded on a first visit: head default, banner,
\* renderBasket, pushViewCart
BasketPageInit ==
    /\ storageEnabled = TRUE
    /\ \E b \in PageBaskets :
          store = [k \in StoreKeys |->
                      IF k = BASKET_STORAGE_KEY THEN JSONStringify(b)
                      ELSE Null]
    /\ LET m == pushViewCart(initializeConsent(
                    Push([store |-> store, dl |-> <<>>, banner |-> "absent",
                          prefill |-> {}, view |-> "basket",
                          debug |-> DebugInit, fx |-> <<>>,
                          threw |-> FALSE, ret |-> <<>>],
                         GtagEntry("default", DefaultConsent))))
       IN /\ dataLayer = m.dl
          /\ banner = m.banner
    /\ prefill = {}
    /\ view = "basket"
    /\ debug = DebugInit
    /\ clock = 0
    /\ session = [saved |-> FALSE, decided |-> FALSE]
    /\ addCalls = [count |-> [id \in ItemIds |-> 0], only |-> FALSE]
    /\ last = [op |-> "load", prev |-> "", arg |-> NoArg, fx |-> <<>>,
               threw |-> FALSE, ret |-> <<>>]

\* the + button of a row
PlusClick(id) ==
    /\ view = "basket"
    /\ IndexOf(getBasket(store), id) > 0
    /\ SetQuantity(id,
                   getBasket(store)[IndexOf(getBasket(store), id)].quantity
                      + 1,
                   FALSE)

\* the - button of a row
MinusClick(id) ==
    /\ view = "basket"
    /\ IndexOf(getBasket(store), id) > 0
    /\ SetQuantity(id,
                   getBasket(store)[IndexOf(getBasket(store), id)].quantity
                      - 1,
                   FALSE)

\* the Remove button of a row
RemoveClick(id) ==
    /\ view = "basket"
    /\ IndexOf(getBasket(store), id) > 0
    /\ Remove(id, FALSE)

\* mutant: the form is shown without a begin_checkout push
ProceedToCheckoutSilent ==
    /\ view = "basket"
    /\ getBasket(store) # <<>>
    /\ Finish([Run0 EXCEPT !.view = "checkout"], "beginCheckout",
              [NoArg EXCEPT !.pre = getBasket(store)])
    /\ UNCHANGED <<storageEnabled, session, addCalls>>

\* the Proceed to Checkout button, rendered with a basket that has rows:
\* pushBeginCheckout, hide the basket contents, show the form
ProceedToCheckout ==
    /\ view = "basket"
    /\ getBasket(store) # <<>>
    /\ Finish([pushBeginCheckout(Run0) EXCEPT !.view = "checkout"],
              "beginCheckout", [NoArg EXCEPT !.pre = getBasket(store)])
    /\ UNCHANGED <<storageEnabled, session, addCalls>>

\* the Cancel button of the form: show the basket contents, renderBasket,
\* pushViewCart
CancelCheckout ==
    /\ view = "checkout"
    /\ Finish([pushViewCart(Run0) EXCEPT !.view = "basket"],
              "cancelCheckout", [NoArg EXCEPT !.pre = getBasket(store)])
    /\ UNCHANGED <<storageEnabled, session, addCalls>>

\* a submit of the form: pushPurchaseEvent, then location.href is set; the
\* form stays in place until the navigation happens
SubmitCheckout(transactionId) ==
    /\ view = "checkout"
    /\ Finalize(transactionId, FALSE)

BasketPageNext ==
    \/ \E id \in ItemIds : PlusClick(id)
    \/ \E id \in ItemIds : MinusClick(id)
    \/ \E id \in ItemIds : RemoveClick(id)
    \/ ProceedToCheckout
    \/ CancelCheckout
    \/ \E t \in TransactionIds : SubmitCheckout(t)

BasketPageSpec == BasketPageInit /\ [][BasketPageNext]_vars

(***************************************************************************)
(* The debug dashboard: the 500 ms poll of the stream and the panel        *)
(***************************************************************************)
\* logDataLayerEvent(item): without the log element nothing is shown; else
\* the entry goes on top and the log is cut to its limit
logDataLayerEvent(d, pos, item) ==
    [d EXCEPT !.handed = Append(@, [pos |-> pos, entry |-> item,
                                    panel |-> d.panel]),
              !.display = IF d.panel
                          THEN SubSeq(<<[pos |-> pos, entry |-> item]>> \o @,
                                      1,
                                      IF Len(@) + 1 > LogLimit THEN LogLimit
                                      ELSE Len(@) + 1)
                          ELSE @]

\* newItems.forEach(item => logDataLayerEvent(item)), from position pos on
RECURSIVE LogNewItems(_, _, _)
LogNewItems(d, dl, pos) ==
    IF pos > Len(dl) THEN d
    ELSE LogNewItems(logDataLayerEvent(d, pos, dl[pos]), dl, pos + 1)

\* mutant: the offset is not moved after the new items are logged
pollTickNoAdvance(m) ==
    IF Len(m.dl) > m.debug.count
    THEN [m EXCEPT !.debug = LogNewItems(m.debug, m.dl, m.debug.count + 1)]
    ELSE m

\* the interval callback of monitorDataLayer
pollTick(m) ==
    IF Len(m.dl) > m.debug.count
    THEN [m EXCEPT !.debug = [LogNewItems(m.debug, m.dl, m.debug.count + 1)
                                 EXCEPT !.count = Len(m.dl)]]
    ELSE m

\* a click on the GTM Debug button: the panel is created on the first
\* click and only hidden or shown afterwards
toggleDebugPanel(m) == [m EXCEPT !.debug.panel = TRUE]

PollTick ==
    /\ Finish(pollTick(Run0), "pollTick", NoArg)
    /\ UNCHANGED <<storageEnabled, session, addCalls>>

ToggleDebugPanel ==
    /\ Finish(toggleDebugPanel(Run0), "toggleDebugPanel", NoArg)
    /\ UNCHANGED <<storageEnabled, session, addCalls>>

\* a first visit, before or after the first poll tick
DebugSpecInit ==
    /\ store = [k \in StoreKeys |-> Null]
    /\ storageEnabled = TRUE
    /\ dataLayer = <<GtagEntry("default", DefaultConsent)>>
    /\ banner = "shown"
    /\ prefill = {}
    /\ view = "none"
    /\ debug \in {DebugInit,
                  [LogNewItems(DebugInit, dataLayer, 1) EXCEPT !.count = 1]}
    /\ clock = 0
    /\ session = [saved |-> FALSE, decided |-> FALSE]
    /\ addCalls = [count |-> [id \in ItemIds |-> 0], only |-> TRUE]
    /\ last = [op |-> "load", prev |-> "", arg |-> NoArg, fx |-> <<>>,
               threw |-> FALSE, ret |-> <<>>]

\* engine appends interleaved with poll ticks and the panel button
DebugNext ==
    \/ \E p \in Products : Add(p, FALSE)
    \/ AcceptAll(FALSE)
    \/ PollTick
    \/ ToggleDebugPanel
    \/ \E page \in Pages : PageLoad(page)

DebugSpec == DebugSpecInit /\ [][DebugNext]_vars

(***************************************************************************)
(* Properties                                                              *)
(***************************************************************************)
\* sum of price x quantity over the rows, in cents, in exact arithmetic
RECURSIVE ExactCents(_)
ExactCents(rows) ==
    IF rows = <<>> THEN 0
    ELSE Head(rows).price.cents * Head(rows).quantity
         + ExactCents(Tail(rows))

\* the last n entries of the stream
LastEntries(n) == SubSeq(dataLayer, Len(dataLayer) - n + 1, Len(dataLayer))

\* C1: every stream entry that carries an ecommerce payload is immediately
\* preceded by the clearing entry { ecommerce: null }.
C1_ClearThenPush ==
    \A i \in 1..Len(dataLayer) :
        dataLayer[i].ecommerce # <<>>
            => /\ i > 1
               /\ dataLayer[i - 1] = ClearEntry

\* a stream with an add_to_cart, a consent_updated and a purchase event
C1_Witness ==
    /\ \E i \in 1..Len(dataLayer) : dataLayer[i].event = "add_to_cart"
    /\ \E i \in 1..Len(dataLayer) : dataLayer[i].event = "consent_updated"
    /\ dataLayer[Len(dataLayer)].event = "purchase"

\* C2: finalize on basket B appends a purchase event whose items are the
\* rows of B with their quantities and whose value is the total of B; when
\* it has returned the basket is empty, its key is deleted from the store
\* and the item count is 0.
C2_CheckoutSnapshot ==
    (last.op = "finalize" /\ ~last.threw)
        => /\ Len(dataLayer) >= 2
           /\ LastEntries(2)[1] = ClearEntry
           /\ LET e == dataLayer[Len(dataLayer)]
                  B == last.arg.pre
              IN /\ e.event = "purchase"
                 /\ Len(e.ecommerce[1].items) = Len(B)
                 /\ \A i \in 1..Len(B) :
                       /\ e.ecommerce[1].items[i].item_id = B[i].item_id
                       /\ e.ecommerce[1].items[i].item_name = B[i].item_name
                       /\ e.ecommerce[1].items[i].price = B[i].price
                       /\ e.ecommerce[1].items[i].quantity = B[i].quantity
                 /\ e.ecommerce[1].value = Num(ExactCents(B))
                 /\ e.ecommerce[1].currency = "EUR"
           /\ store[BASKET_STORAGE_KEY] = Null
           /\ getBasket(store) = <<>>
           /\ getBasketItemCount(store) = 0

\* finalize has run on a basket of two rows whose float sum is inexact
C2_Witness ==
    /\ last.op = "finalize"
    /\ ~last.threw
    /\ Len(last.arg.pre) = 2
    /\ SumValue(last.arg.pre).ulp # 0

\* C3: within one finalize call the order is persisted under last_order,
\* then the clearing entry is appended, then the purchase event, and only
\* then is the basket cleared.
C3_FinalizeOrder ==
    last.op = "finalize"
        => /\ last.fx = << Fx("setItem", ORDER_STORAGE_KEY),
                           Fx("push", "clear"),
                           Fx("push", "purchase"),
                           Fx("removeItem", BASKET_STORAGE_KEY) >>
           /\ \A i, j \in 1..Len(last.fx) :
                 (last.fx[i] = Fx("removeItem", BASKET_STORAGE_KEY)
                  /\ last.fx[j] = Fx("push", "purchase")) => j < i

\* finalize has run on a basket that held rows
C3_Witness ==
    /\ last.op = "finalize"
    /\ last.arg.pre # <<>>
    /\ getLastOrder(store) # Null

\* C4: after any sequence of add calls from the empty basket no two rows
\* share an item_id and each row's quantity is the number of add calls
\* made for its item_id.
C4_AddCounts ==
    addCalls.only
        => LET basket == getBasket(store)
           IN /\ \A i, j \in 1..Len(basket) :
                    basket[i].item_id = basket[j].item_id => i = j
              /\ \A i \in 1..Len(basket) :
                    basket[i].quantity = addCalls.count[basket[i].item_id]
              /\ \A id \in ItemIds :
                    addCalls.count[id] > 0 => IndexOf(basket, id) > 0

\* one item_id was added twice and another one once
C4_Witness ==
    /\ addCalls.only
    /\ \E a, b \in ItemIds :
          /\ a # b
          /\ addCalls.count[a] = 2
          /\ addCalls.count[b] = 1

\* C5: setQuantity(id, n) with n <= 0 leaves the basket remove(id) leaves
\* and appends the entries remove(id) appends, the item is absent
\* afterwards, and every row of every persisted basket has quantity >= 1.
C5_ZeroQuantityRemoves ==
    /\ \A i \in 1..Len(getBasket(store)) : getBasket(store)[i].quantity >= 1
    /\ (last.op = "setQuantity" /\ last.arg.quantity <= 0)
          => LET B == last.arg.pre
                 id == last.arg.item
                 i == IndexOf(B, id)
             IN /\ getBasket(store) = FilterOut(B, id)
                /\ IndexOf(getBasket(store), id) = 0
                /\ i > 0 =>
                      /\ last.fx = << Fx("setItem", BASKET_STORAGE_KEY),
                                      Fx("push", "clear"),
                                      Fx("push", "remove_from_cart") >>
                      /\ LastEntries(2)
                           = << ClearEntry, RemoveFromCartEntry(B[i]) >>
                /\ i = 0 => last.fx = << Fx("warn", id) >>

\* setQuantity with n <= 0 has run on a row of a basket of two rows
C5_Witness ==
    /\ last.op = "setQuantity"
    /\ last.arg.quantity <= 0
    /\ Len(last.arg.pre) = 2
    /\ IndexOf(last.arg.pre, last.arg.item) > 0

\* the operations that hand a decision to applyConsent and saveConsent
DecisionOps == {"acceptAll", "rejectAll", "savePreferences", "applyDecision"}

\* the decisions taken through the banner
BannerOps == {"acceptAll", "rejectAll", "savePreferences"}

\* C6: after applyConsent(d) and saveConsent(d), for every decision d, the
\* consent_updated event and the persisted object both read security as
\* granted (a missing security property reads as granted).
C6_SecurityGranted ==
    last.op \in DecisionOps
        => /\ dataLayer[Len(dataLayer)].event = "consent_updated"
           /\ ReadConsent(dataLayer[Len(dataLayer)].consent[1],
                          "security_storage") = "granted"
           /\ loadSavedConsent(store) # Null
           /\ ReadConsent(loadSavedConsent(store)[1], "security_storage")
                 = "granted"

\* C7: in a session that started with no persisted consent, and before any
\* decision, the consent state the stream's consent calls establish has
\* every type denied except security_storage, which is granted.
C7_DefaultDenied ==
    (~session.saved /\ ~session.decided)
        => \A t \in ConsentTypes :
              ConsentStateOf(dataLayer).types[t]
                 = IF t = "security_storage" THEN "granted" ELSE "denied"

\* a basket page has loaded with nothing persisted: the stream holds the
\* default call and the page's view_cart event
C7_Witness ==
    /\ last.op = "load"
    /\ ~session.saved
    /\ ~session.decided
    /\ clock >= 1
    /\ dataLayer[Len(dataLayer)].event = "view_cart"

\* the decision d merged over the default: seven types, the unspecified
\* ones denied, security_storage granted
MergedState(d) ==
    ConsentObject([t \in ConsentTypes |->
                      IF t = "security_storage" THEN "granted"
                      ELSE IF d.types[t] = "undefined" THEN "denied"
                      ELSE d.types[t]])

NamesUserTypes(consent) ==
    \A t \in UserTypes : consent.types[t] \in {"granted", "denied"}

\* C9: a decision taken through the banner is persisted as passed, with its
\* timestamp, and names the six user-facing types; a page load that finds
\* such a persisted object shows no banner, writes nothing to the store, and
\* re-applies exactly that object: an update call with its six values and a
\* consent_updated event carrying it.
C9_ConsentReplay ==
    /\ last.op \in BannerOps
          => /\ loadSavedConsent(store)
                   = << [last.arg.consent[1] EXCEPT !.timestamp = clock] >>
             /\ NamesUserTypes(last.arg.consent[1])
    /\ (/\ last.op = "load"
        /\ loadSavedConsent(store) # Null
        /\ NamesUserTypes(loadSavedConsent(store)[1]))
          => LET persisted == loadSavedConsent(store)[1]
             IN /\ banner = "absent"
                /\ \A i \in 1..Len(last.fx) : last.fx[i].op = "push"
                /\ Len(dataLayer) >= 3
                /\ dataLayer[2].kind = "gtag"
                /\ dataLayer[2].command = "update"
                /\ \A t \in UserTypes :
                      dataLayer[2].consent[1].types[t] = persisted.types[t]
                /\ dataLayer[3] = ConsentEntry(persisted)
                /\ \A t \in UserTypes :
                      ConsentStateOf(dataLayer).types[t] = persisted.types[t]

\* a page has loaded on a persisted granular decision: analytics granted,
\* advertising denied
C9_Witness ==
    /\ last.op = "load"
    /\ loadSavedConsent(store) # Null
    /\ loadSavedConsent(store)[1].timestamp > 0
    /\ loadSavedConsent(store)[1].types["analytics_storage"] = "granted"
    /\ loadSavedConsent(store)[1].types["ad_storage"] = "denied"
    /\ loadSavedConsent(store)[1].types["security_storage"] = "undefined"

\* C10: from a page load that found no persisted decision until a decision
\* is made, the banner is shown and the stream holds no consent update call
\* and no consent_updated event.
C10_BannerPending ==
    (~session.saved /\ ~session.decided)
        => /\ banner = "shown"
           /\ \A i \in 1..Len(dataLayer) :
                 /\ ~(dataLayer[i].kind = "gtag"
                      /\ dataLayer[i].command = "update")
                 /\ dataLayer[i].event # "consent_updated"

\* a page loaded with nothing persisted, and the Cookie Settings button was
\* used before any decision
C10_Witness ==
    /\ ~session.saved
    /\ ~session.decided
    /\ last.op = "cookieSettings"
    /\ clock >= 2

\* the consent_updated events of a stream, in order
ConsentEvents(dl) == SelectSeq(dl, LAMBDA e : e.event = "consent_updated")

\* C11: when accept-all follows reject-all, the consent state after the
\* reject-all has security_storage granted and the six other types denied,
\* the state after the accept-all has all six granted (security_storage
\* still granted), and the accept-all adds one consent_updated event after
\* the reject-all one; when the reject-all was the first decision of a
\* session that replayed nothing, the stream then holds exactly these two
\* consent_updated events, in that order.
C11_RejectThenAccept ==
    [][ (last.op = "rejectAll" /\ last'.op = "acceptAll")
           => /\ \A t \in ConsentTypes :
                    ConsentStateOf(dataLayer).types[t]
                       = IF t = "security_storage" THEN "granted"
                         ELSE "denied"
              /\ \A t \in ConsentTypes :
                    ConsentStateOf(dataLayer').types[t] = "granted"
              /\ ConsentEvents(dataLayer)[Len(ConsentEvents(dataLayer))]
                    .consent[1].types
                    = [t \in ConsentTypes |->
                          IF t = "security_storage" THEN "undefined"
                          ELSE "denied"]
              /\ Len(ConsentEvents(dataLayer'))
                    = Len(ConsentEvents(dataLayer)) + 1
              /\ ConsentEvents(dataLayer')[Len(ConsentEvents(dataLayer'))]
                    .consent[1].types
                    = [t \in ConsentTypes |->
                          IF t = "security_storage" THEN "undefined"
                          ELSE "granted"]
              /\ (~session.saved /\ Len(ConsentEvents(dataLayer)) = 1)
                    => Len(ConsentEvents(dataLayer')) = 2 ]_vars

\* accept-all has followed a reject-all that was the first decision of a
\* session without persisted consent
C11_Witness ==
    /\ last.op = "acceptAll"
    /\ last.prev = "rejectAll"
    /\ ~session.saved
    /\ Len(ConsentEvents(dataLayer)) = 2

\* the three advertising types hold one value in a consent object
AdTypesAgree(consent) ==
    /\ consent.types["ad_user_data"] = consent.types["ad_storage"]
    /\ consent.types["ad_personalization"] = consent.types["ad_storage"]

\* C12: after every decision taken through the banner (accept-all,
\* reject-all, save-preferences), ad_storage, ad_user_data and
\* ad_personalization hold one value in the update call, in the
\* consent_updated event, in the consent state the stream establishes and
\* in the persisted object.
C12_AdTypesTogether ==
    last.op \in BannerOps
        => /\ AdTypesAgree(LastEntries(2)[1].consent[1])
           /\ LastEntries(2)[1].consent[1].types["ad_storage"]
                 \in {"granted", "denied"}
           /\ LastEntries(2)[2].event = "consent_updated"
           /\ AdTypesAgree(LastEntries(2)[2].consent[1])
           /\ AdTypesAgree(ConsentStateOf(dataLayer))
           /\ loadSavedConsent(store) # Null
           /\ AdTypesAgree(loadSavedConsent(store)[1])
           /\ loadSavedConsent(store)[1].types["ad_storage"]
                 = LastEntries(2)[2].consent[1].types["ad_storage"]

\* preferences were saved with advertising checked and analytics unchecked
C12_Witness ==
    /\ last.op = "savePreferences"
    /\ last.arg.consent[1].types["ad_storage"] = "granted"
    /\ last.arg.consent[1].types["analytics_storage"] = "denied"

\* C13: when the write of a consent decision fails (the store refuses every
\* access, or the quota is exceeded), the decision handler still runs to its
\* end without an exception: the update call and the consent_updated event
\* of that decision are appended, the failed write is only logged, and the
\* banner is hidden.
C13_ConsentWriteFailure ==
    (last.op \in BannerOps /\ (last.arg.full \/ ~storageEnabled))
        => /\ ~last.threw
           /\ last.fx = << Fx("push", "gtag"),
                           Fx("push", "consent_updated"),
                           Fx("setItemFailed", CONSENT_STORAGE_KEY) >>
           /\ LastEntries(2)[1].kind = "gtag"
           /\ LastEntries(2)[1].command = "update"
           /\ \A t \in UserTypes :
                 LastEntries(2)[1].consent[1].types[t]
                    = last.arg.consent[1].types[t]
           /\ LastEntries(2)[2].event = "consent_updated"
           /\ LastEntries(2)[2].consent = last.arg.consent
           /\ banner = "fading"

\* accept-all was taken while the store's quota was exceeded
C13_Witness ==
    /\ last.op = "acceptAll"
    /\ last.arg.full
    /\ storageEnabled
    /\ loadSavedConsent(store) = Null

\* the operations of the basket engine and the checkout finalizer
EngineOps ==
    {"add", "remove", "setQuantity", "beginCheckout", "viewCart", "finalize"}

\* C14: no failure of a store access escapes an engine operation: add,
\* remove, setQuantity, beginCheckout, viewCart and finalize return normally
\* whatever the store does.
C14_NoExceptionEscapes ==
    last.op \in EngineOps => ~last.threw

\* C15: when the write of a basket mutation fails, the mutation is still
\* what later reads return: after such an add the basket read back is the
\* basket before with the item added, and the item count and the total
\* include it.
C15_MutationVisibleAfterFailedWrite ==
    (last.op = "add" /\ (last.arg.full \/ ~storageEnabled))
        => /\ getBasket(store)
                 = AddedBasket(last.arg.pre, Product(last.arg.item))
           /\ getBasketItemCount(store) = SumQuantity(last.arg.pre) + 1
           /\ getBasketTotal(store).cents
                 = ExactCents(last.arg.pre) + PriceOf(last.arg.item).cents

\* C16: a remove of an item_id that is not in the basket changes neither
\* the store nor the basket read from it, appends nothing to the stream,
\* not even a clearing entry, and ends without an exception, with a warning
\* as its only effect.
C16_RemoveAbsentNoOp ==
    [][ (last'.op = "remove"
         /\ IndexOf(getBasket(store), last'.arg.item) = 0)
           => /\ store' = store
              /\ getBasket(store') = getBasket(store)
              /\ dataLayer' = dataLayer
              /\ ~last'.threw
              /\ last'.fx = << Fx("warn", last'.arg.item) >> ]_vars

\* a remove of an absent item_id has run on a basket that holds another row
C16_Witness ==
    /\ last.op = "remove"
    /\ Len(last.arg.pre) = 1
    /\ IndexOf(last.arg.pre, last.arg.item) = 0
    /\ getBasket(store) = last.arg.pre

\* C17: an add with a malformed item (no item_id, no item_name, or a price
\* that is not a number) leaves the store and the basket read from it as
\* they were, appends nothing to the stream and ends without an exception.
C17_MalformedAddRejected ==
    [][ (/\ last'.op = "add"
         /\ \/ last'.arg.product[1].item_id = ""
            \/ last'.arg.product[1].item_name = ""
            \/ last'.arg.product[1].price \notin {PriceOf(id) : id \in ItemIds})
           => /\ store' = store
              /\ getBasket(store') = getBasket(store)
              /\ dataLayer' = dataLayer
              /\ ~last'.threw ]_vars

\* an add with a price that is not a number was rejected on a basket that
\* holds a row
C17_Witness ==
    /\ last.op = "add"
    /\ last.arg.product[1].price = NaN
    /\ Len(last.arg.pre) = 1
    /\ last.fx = << Fx("error", "Invalid product data") >>
    /\ getBasket(store) = last.arg.pre

\* the value under key k is present and does not parse
Corrupt(k) == store[k] # Null /\ ~store[k][1].wellFormed

\* C18: a corrupt value under the basket key reads as the empty basket
\* (count 0, total 0), one under the consent key as no decision, so that a
\* page load shows the banner and replays nothing, and one under the
\* last-order key as no order; no operation that reads them ends with an
\* exception.
C18_CorruptReadsAsAbsent ==
    /\ Corrupt(BASKET_STORAGE_KEY)
          => /\ getBasket(store) = <<>>
             /\ getBasketItemCount(store) = 0
             /\ getBasketTotal(store) = Num(0)
             /\ ~last.threw
             /\ \A i \in 1..Len(dataLayer) :
                   dataLayer[i].event \in {"view_cart", "begin_checkout"}
                      => dataLayer[i].ecommerce[1].items = <<>>
    /\ Corrupt(CONSENT_STORAGE_KEY)
          => /\ loadSavedConsent(store) = Null
             /\ ~last.threw
             /\ last.op = "load"
                   => /\ banner = "shown"
                      /\ ~session.saved
                      /\ \A i \in 1..Len(dataLayer) :
                            dataLayer[i].event # "consent_updated"
    /\ Corrupt(ORDER_STORAGE_KEY)
          => /\ getLastOrder(store) = Null
             /\ ~last.threw

\* the basket page has loaded over a store whose three values are corrupt
C18_Witness ==
    /\ last.op = "load"
    /\ clock >= 1
    /\ \A k \in StoreKeys : Corrupt(k)
    /\ dataLayer[Len(dataLayer)].event = "view_cart"

\* the add whose product passed the handler's validation
AcceptedAdd ==
    /\ last.op = "add"
    /\ last.arg.product[1] \in Products

\* C19: every add of a well-formed item appends, after the clearing entry,
\* one add_to_cart event whose items hold exactly one element, for that
\* item, with quantity 1 and the item's unit price, and whose value is the
\* unit price, whether the item was new or already in the basket.
C19_AddEventIsDelta ==
    AcceptedAdd
        => LET product == last.arg.product[1]
               e == dataLayer[Len(dataLayer)]
           IN /\ Len(SelectSeq(last.fx,
                               LAMBDA f : f = Fx("push", "add_to_cart"))) = 1
              /\ LastEntries(2)[1] = ClearEntry
              /\ e.event = "add_to_cart"
              /\ e.ecommerce[1].currency = "EUR"
              /\ e.ecommerce[1].value = PriceOf(product.item_id)
              /\ Len(e.ecommerce[1].items) = 1
              /\ e.ecommerce[1].items[1].item_id = product.item_id
              /\ e.ecommerce[1].items[1].item_name = NameOf(product.item_id)
              /\ e.ecommerce[1].items[1].price = PriceOf(product.item_id)
              /\ e.ecommerce[1].items[1].quantity = 1

\* an item was added whose row already held quantity 2
C19_Witness ==
    /\ AcceptedAdd
    /\ IndexOf(last.arg.pre, last.arg.item) > 0
    /\ last.arg.pre[IndexOf(last.arg.pre, last.arg.item)].quantity = 2
    /\ getBasket(store)[IndexOf(getBasket(store), last.arg.item)].quantity = 3

\* C20: a remove of an item that is in the basket deletes its whole row and
\* keeps the other rows, and appends, after the clearing entry, one
\* remove_from_cart event whose single item carries the quantity the row
\* had before the removal and whose value is the unit price times that
\* quantity, as JavaScript computes the product.
C20_RemoveEventCarriesRow ==
    (last.op = "remove" /\ IndexOf(last.arg.pre, last.arg.item) > 0)
        => LET B == last.arg.pre
               i == IndexOf(B, last.arg.item)
               after == getBasket(store)
               e == dataLayer[Len(dataLayer)]
           IN /\ IndexOf(after, last.arg.item) = 0
              /\ Len(after) = Len(B) - 1
              /\ \A j \in 1..Len(B) :
                    j # i => \E k \in 1..Len(after) : after[k] = B[j]
              /\ Len(SelectSeq(last.fx,
                        LAMBDA f : f = Fx("push", "remove_from_cart"))) = 1
              /\ LastEntries(2)[1] = ClearEntry
              /\ e.event = "remove_from_cart"
              /\ Len(e.ecommerce[1].items) = 1
              /\ e.ecommerce[1].items[1].item_id = last.arg.item
              /\ e.ecommerce[1].items[1].price = B[i].price
              /\ e.ecommerce[1].items[1].quantity = B[i].quantity
              /\ e.ecommerce[1].value = FloatMul(B[i].price, B[i].quantity)

\* a row of quantity 2 was removed
C20_Witness ==
    /\ last.op = "remove"
    /\ IndexOf(last.arg.pre, last.arg.item) > 0
    /\ last.arg.pre[IndexOf(last.arg.pre, last.arg.item)].quantity = 2
    /\ getBasket(store) = <<>>

\* C21: a setQuantity step with n > 0 appends nothing to the stream and
\* leaves the basket with the same rows in the same places, the row of the
\* item_id holding quantity n and every other row as it was; with an
\* item_id that is not in the basket every row is as it was.
C21_SetQuantityFrame ==
    [][ (last'.op = "setQuantity" /\ last'.arg.quantity > 0)
           => LET B == getBasket(store)
                  A == getBasket(store')
                  i == IndexOf(B, last'.arg.item)
              IN /\ dataLayer' = dataLayer
                 /\ ~last'.threw
                 /\ Len(A) = Len(B)
                 /\ \A j \in 1..Len(B) :
                       A[j] = IF j = i
                              THEN [B[j] EXCEPT
                                       !.quantity = last'.arg.quantity]
                              ELSE B[j] ]_vars

\* the quantity of one row of a basket of two rows was set to 2
C21_Witness ==
    /\ last.op = "setQuantity"
    /\ last.arg.quantity = 2
    /\ Len(last.arg.pre) = 2
    /\ IndexOf(last.arg.pre, last.arg.item) > 0
    /\ getBasket(store)[IndexOf(last.arg.pre, last.arg.item)].quantity = 2

\* C22: a beginCheckout or viewCart step leaves the store, the basket, the
\* item count and the total as they were and appends exactly a clearing
\* entry followed by its event (begin_checkout / view_cart), whose items
\* are the rows of the basket in basket order and whose value is the
\* basket total.
C22_CheckoutViewFrame ==
    [][ last'.op \in {"beginCheckout", "viewCart"}
           => LET B == getBasket(store)
                  e == dataLayer'[Len(dataLayer')]
              IN /\ store' = store
                 /\ getBasket(store') = B
                 /\ getBasketItemCount(store') = getBasketItemCount(store)
                 /\ getBasketTotal(store') = getBasketTotal(store)
                 /\ ~last'.threw
                 /\ Len(dataLayer') = Len(dataLayer) + 2
                 /\ SubSeq(dataLayer', 1, Len(dataLayer)) = dataLayer
                 /\ dataLayer'[Len(dataLayer) + 1] = ClearEntry
                 /\ e.event = IF last'.op = "beginCheckout"
                              THEN "begin_checkout" ELSE "view_cart"
                 /\ e.ecommerce[1].currency = "EUR"
                 /\ e.ecommerce[1].value = getBasketTotal(store)
                 /\ e.ecommerce[1].value = Num(ExactCents(B))
                 /\ Len(e.ecommerce[1].items) = Len(B)
                 /\ \A i \in 1..Len(B) :
                       /\ e.ecommerce[1].items[i].item_id = B[i].item_id
                       /\ e.ecommerce[1].items[i].item_name = B[i].item_name
                       /\ e.ecommerce[1].items[i].price = B[i].price
                       /\ e.ecommerce[1].items[i].quantity = B[i].quantity
       ]_vars

\* beginCheckout has run on a basket of two rows whose float sum is inexact
C22_Witness ==
    /\ last.op = "beginCheckout"
    /\ Len(last.arg.pre) = 2
    /\ SumValue(last.arg.pre).ulp # 0
    /\ getBasket(store) = last.arg.pre

\* C23: within a page no operation removes, replaces or reorders an entry
\* of the stream: after every step that is not a page load the stream
\* before the step is a prefix of the stream after it.
C23_StreamAppendOnly ==
    [][ last'.op # "load"
           => /\ Len(dataLayer') >= Len(dataLayer)
              /\ SubSeq(dataLayer', 1, Len(dataLayer)) = dataLayer ]_vars

\* three operations of one page have each appended two entries
C23_Witness ==
    /\ clock = 3
    /\ Len(dataLayer) = 7
    /\ dataLayer[1].command = "default"
    /\ dataLayer[Len(dataLayer)].event = "purchase"

\* the event names of the stream contract
EventNames ==
    {"consent_updated", "add_to_cart", "remove_from_cart", "begin_checkout",
     "view_cart", "purchase"}

\* the clearing object, or an object with an event name of the contract
ClearOrEvent(e) ==
    \/ e = ClearEntry
    \/ (e.kind = "event" /\ e.event \in EventNames)

\* C24 as stated: every entry the consent and basket operations append
\* (every entry after the head's consent default) is the clearing object or
\* an object with an event name of the contract.
C24_OnlyClearOrEvent ==
    \A i \in 2..Len(dataLayer) : ClearOrEvent(dataLayer[i])

\* C24: every entry after the head's consent default is the clearing
\* object, an object with an event name of the contract, or the arguments
\* of a gtag consent update call, which is immediately followed by a
\* consent_updated event; commerce events carry an ecommerce payload and
\* consent_updated carries a consent object.
C24_ClearEventOrConsentCall ==
    /\ dataLayer[1].kind = "gtag"
    /\ dataLayer[1].command = "default"
    /\ \A i \in 2..Len(dataLayer) :
          \/ /\ ClearOrEvent(dataLayer[i])
             /\ dataLayer[i].kind = "event"
                   => IF dataLayer[i].event = "consent_updated"
                      THEN dataLayer[i].consent # <<>>
                      ELSE dataLayer[i].ecommerce # <<>>
          \/ /\ dataLayer[i].kind = "gtag"
             /\ dataLayer[i].command = "update"
             /\ i < Len(dataLayer)
             /\ dataLayer[i + 1].event = "consent_updated"

\* a stream that holds a consent update call, a consent_updated event, a
\* clearing entry and a commerce event
C24_Witness ==
    /\ \E i \in 2..Len(dataLayer) :
          dataLayer[i].kind = "gtag" /\ dataLayer[i].command = "update"
    /\ \E i \in 2..Len(dataLayer) : dataLayer[i].event = "consent_updated"
    /\ \E i \in 2..Len(dataLayer) : dataLayer[i] = ClearEntry
    /\ \E i \in 2..Len(dataLayer) : dataLayer[i].event = "view_cart"

\* the transaction ids of the purchase events of a stream, in order
PurchaseIds(dl) ==
    LET P == SelectSeq(dl, LAMBDA e : e.event = "purchase")
    IN [i \in 1..Len(P) |-> P[i].ecommerce[1].transaction_id[1]]

\* C25: transaction ids are unique per order: a finalize call produces an
\* Order whose transactionId differs from that of the Order persisted by
\* the previous finalize call (of this or of an earlier session), and the
\* purchase events of a stream carry pairwise different transactionIds.
C25_TransactionIdsUnique ==
    [][ (last'.op = "finalize" /\ ~last'.threw)
           => /\ getLastOrder(store) # Null
                    => last'.ret[1].transaction_id
                          # getLastOrder(store)[1].transaction_id
              /\ \A i, j \in 1..Len(PurchaseIds(dataLayer')) :
                    i # j => PurchaseIds(dataLayer')[i]
                                # PurchaseIds(dataLayer')[j] ]_vars

\* C26: a finalize call writes the last-order key exactly once; right after
\* it getLastOrder returns an Order whose transaction_id, value, currency
\* and items equal those of the purchase event the call appended as the
\* last entry of the stream; no operation other than finalize and
\* clearLastOrder changes the value under the last-order key, and
\* clearLastOrder leaves no order.
C26_OrderMatchesPurchase ==
    [][ /\ (last'.op = "finalize" /\ ~last'.threw)
           => LET o == getLastOrder(store')
                  e == dataLayer'[Len(dataLayer')]
              IN /\ Len(SelectSeq(last'.fx,
                        LAMBDA f : f = Fx("setItem", ORDER_STORAGE_KEY))) = 1
                 /\ o # Null
                 /\ Len(dataLayer') = Len(dataLayer) + 2
                 /\ e.event = "purchase"
                 /\ o[1].transaction_id = e.ecommerce[1].transaction_id[1]
                 /\ o[1].value = e.ecommerce[1].value
                 /\ o[1].currency = e.ecommerce[1].currency
                 /\ o[1].items = e.ecommerce[1].items
        /\ last'.op \notin {"finalize", "clearLastOrder"}
           => store'[ORDER_STORAGE_KEY] = store[ORDER_STORAGE_KEY]
        /\ last'.op = "clearLastOrder" => getLastOrder(store') = Null ]_vars

\* a finalize of a basket of two rows has just persisted its order
C26_Witness ==
    /\ last.op = "finalize"
    /\ Len(last.arg.pre) = 2
    /\ getLastOrder(store) # Null
    /\ Len(getLastOrder(store)[1].items) = 2
    /\ dataLayer[Len(dataLayer)].event = "purchase"

\* sum of the quantities of the rows
RECURSIVE TotalQuantity(_)
TotalQuantity(rows) ==
    IF rows = <<>> THEN 0
    ELSE Head(rows).quantity + TotalQuantity(Tail(rows))

\* C27: in every reachable state getBasketItemCount() is the sum of the
\* quantities of the rows and getBasketTotal() is the two-decimal number
\* whose cents are the sum over the rows of unit price x quantity, the
\* rounding being applied once to the aggregate; an empty basket gives 0
\* for both.
C27_DerivedTotals ==
    /\ getBasketItemCount(store) = TotalQuantity(getBasket(store))
    /\ getBasketTotal(store) = Num(ExactCents(getBasket(store)))
    /\ getBasket(store) = <<>>
          => getBasketItemCount(store) = 0 /\ getBasketTotal(store) = Num(0)

\* three units at 29.99 in one row: the count is 3 and the total 89.97
C27_Witness ==
    /\ Len(getBasket(store)) = 1
    /\ getBasket(store)[1].price = Num(2999)
    /\ getBasket(store)[1].quantity = 3
    /\ getBasketItemCount(store) = 3
    /\ getBasketTotal(store) = Num(8997)

\* C28: a call of loadDecision, getBasketSnapshot, getBasketTotal,
\* getItemCount or getLastOrder, in any state (the store working, refusing
\* access or holding unparseable text), returns normally, appends nothing
\* to the stream and changes nothing in the persisted store.
C28_ReadsArePure ==
    [][ last'.op \in ReadOps
           => /\ dataLayer' = dataLayer
              /\ store' = store
              /\ last'.fx = <<>>
              /\ ~last'.threw ]_vars

\* getLastOrder has just been called right after a finalize that persisted
\* an order, and the order and the purchase event are still there
C28_Witness ==
    /\ last.op = "getLastOrder"
    /\ last.prev = "finalize"
    /\ last.ret[1] # Null
    /\ getLastOrder(store) = last.ret[1]
    /\ dataLayer[Len(dataLayer)].event = "purchase"

\* the same decision is applied by two steps in succession
SameDecisionTwice ==
    /\ last.op \in DecisionOps
    /\ last'.op = last.op
    /\ last'.arg.consent = last.arg.consent

\* C29 as stated: applying the same decision twice in succession leaves the
\* persisted consent value of the first application, and appends one
\* consent_updated event per call.
C29_SamePersistedValue ==
    [][ SameDecisionTwice
           => /\ store'[CONSENT_STORAGE_KEY] = store[CONSENT_STORAGE_KEY]
              /\ Len(ConsentEvents(dataLayer'))
                    = Len(ConsentEvents(dataLayer)) + 1 ]_vars

\* C29: applying the same decision twice in succession leaves a persisted
\* consent object with the same value for every consent type as after the
\* first application and with the timestamp of the second application, and
\* each application appends one consent_updated event carrying the
\* decision: the stream ends with two equal events, the second preceded by
\* its own update call.
C29_RepeatedDecision ==
    [][ SameDecisionTwice
           => LET first  == loadSavedConsent(store)
                  second == loadSavedConsent(store')
                  events == ConsentEvents(dataLayer')
              IN /\ first # Null
                 /\ second # Null
                 /\ second[1].types = first[1].types
                 /\ second[1].types = last'.arg.consent[1].types
                 /\ first[1].timestamp = clock
                 /\ second[1].timestamp = clock'
                 /\ Len(dataLayer') = Len(dataLayer) + 2
                 /\ Len(events) = Len(ConsentEvents(dataLayer)) + 1
                 /\ events[Len(events)] = events[Len(events) - 1]
                 /\ events[Len(events)].consent = last'.arg.consent ]_vars

\* a decision granting analytics_storage has been applied twice in
\* succession from the first page: the persisted object
\* carries the time of the second application and the stream ends with two
\* consent_updated events
C29_Witness ==
    /\ last.op = "applyDecision"
    /\ last.prev = "applyDecision"
    /\ Len(dataLayer) = 5
    /\ dataLayer[3].event = "consent_updated"
    /\ dataLayer[5] = dataLayer[3]
    /\ loadSavedConsent(store) # Null
    /\ loadSavedConsent(store)[1].timestamp = 2
    /\ loadSavedConsent(store)[1].types["analytics_storage"] = "granted"

\* the item ids of the rows of a basket, in row order
RowIds(basket) == [i \in 1..Len(basket) |-> basket[i].item_id]

\* the sequence without its i-th element
Without(s, i) == SubSeq(s, 1, i - 1) \o SubSeq(s, i + 1, Len(s))

TimerOps == {"bannerTimeout", "prefillTimeout"}

\* C31: the Cookie Settings control re-opens the banner at any time: no
\* timer callback fails on a missing banner element, and when the removal
\* timer that was pending at a Cookie Settings click has run, a banner is
\* displayed.
C31_CookieSettingsReopens ==
    /\ last.op \in TimerOps => ~last.threw
    /\ (last.prev = "cookieSettings" /\ last.op = "bannerTimeout")
          => banner = "shown"

\* C32: finalize has no guard: when a finalize call immediately follows
\* another, the second call too writes an Order under the last-order key
\* and appends a clearing entry and a purchase event; its Order and event
\* are built from the basket the first call left, so they carry no items
\* and value 0, and the persisted Order is the second one.
C32_DoubleFinalize ==
    [][ (last.op = "finalize" /\ last'.op = "finalize")
           => /\ getBasket(store) = <<>>
              /\ last'.ret # <<>>
              /\ last'.ret[1].items = <<>>
              /\ last'.ret[1].value = Num(0)
              /\ last'.fx = << Fx("setItem", ORDER_STORAGE_KEY),
                               Fx("push", "clear"),
                               Fx("push", "purchase"),
                               Fx("removeItem", BASKET_STORAGE_KEY) >>
              /\ dataLayer' = dataLayer
                    \o << ClearEntry, PurchaseEntry(last'.ret[1]) >>
              /\ getLastOrder(store') = last'.ret ]_vars

\* a basket of one row was checked out twice in succession with different
\* transaction ids: the stream holds the purchase of the row and then an
\* empty purchase, and the persisted order is the empty one
C32_Witness ==
    /\ last.op = "finalize"
    /\ last.prev = "finalize"
    /\ clock = 3
    /\ Len(PurchaseIds(dataLayer)) = 2
    /\ PurchaseIds(dataLayer)[1] # PurchaseIds(dataLayer)[2]
    /\ Len(dataLayer[Len(dataLayer) - 2].ecommerce[1].items) = 1
    /\ dataLayer[Len(dataLayer)].ecommerce[1].items = <<>>
    /\ getLastOrder(store)[1].items = <<>>
    /\ getLastOrder(store)[1].transaction_id = PurchaseIds(dataLayer)[2]

\* the positions in a run's effects of the effects of one kind
FxAt(fx, op) == { i \in 1..Len(fx) : fx[i].op = op }

\* C33: add, remove and setQuantity write the full basket after the
\* mutation to the store before they append any entry to the stream: in
\* the effects of the call one write of the basket key precedes every push,
\* the text written is the whole basket with the mutation applied, and it
\* is what the read API returns once the call has returned.
C33_PersistBeforePush ==
    [][ last'.op \in {"add", "remove", "setQuantity"}
           => LET pre  == getBasket(store)
                  id   == last'.arg.item
                  i    == IndexOf(pre, id)
                  post == IF last'.op = "add"
                          THEN AddedBasket(pre, last'.arg.product[1])
                          ELSE IF last'.op = "remove"
                                  \/ last'.arg.quantity <= 0
                          THEN FilterOut(pre, id)
                          ELSE IF i > 0
                          THEN [pre EXCEPT ![i].quantity = last'.arg.quantity]
                          ELSE pre
                  W == FxAt(last'.fx, "setItem")
                  P == FxAt(last'.fx, "push")
              IN /\ P # {} => W # {}
                 /\ \A w \in W, p \in P : w < p
                 /\ Cardinality(W) <= 1
                 /\ \A w \in W : last'.fx[w].key = BASKET_STORAGE_KEY
                 /\ W # {}
                       => /\ store'[BASKET_STORAGE_KEY] = JSONStringify(post)
                          /\ getBasket(store') = post
                 /\ W = {} => store' = store /\ dataLayer' = dataLayer ]_vars

\* an add to a basket of one other row has just written both rows and then
\* pushed the clearing entry and add_to_cart
C33_Witness ==
    /\ last.op = "add"
    /\ Len(last.arg.pre) = 1
    /\ last.fx = << Fx("setItem", BASKET_STORAGE_KEY), Fx("push", "clear"),
                    Fx("push", "add_to_cart") >>
    /\ Len(getBasket(store)) = 2
    /\ store[BASKET_STORAGE_KEY] = JSONStringify(getBasket(store))

\* C34 as stated: every decision flow of the banner (accept-all, reject-all,
\* save-preferences) writes the consent key before it pushes the
\* consent_updated event.
C34_PersistBeforePush ==
    [][ last'.op \in BannerOps
           => \A w \in FxAt(last'.fx, "setItem"), p \in FxAt(last'.fx, "push") :
                 last'.fx[p].key = "consent_updated" => w < p ]_vars

\* C34: every decision flow of the banner (accept-all, reject-all,
\* save-preferences) pushes the consent update call and the consent_updated
\* event first and writes the decision under the consent key afterwards:
\* its effects are these three, in this order, and the object written
\* holds the values the event carries.
C34_PushBeforePersist ==
    [][ last'.op \in BannerOps
           => /\ last'.fx = << Fx("push", "gtag"),
                               Fx("push", "consent_updated"),
                               Fx("setItem", CONSENT_STORAGE_KEY) >>
              /\ dataLayer'[Len(dataLayer')].event = "consent_updated"
              /\ loadSavedConsent(store') # Null
              /\ loadSavedConsent(store')[1].types
                    = dataLayer'[Len(dataLayer')].consent[1].types ]_vars

\* preferences granting analytics only have just been saved from the banner
C34_Witness ==
    /\ last.op = "savePreferences"
    /\ last.fx[3] = Fx("setItem", CONSENT_STORAGE_KEY)
    /\ dataLayer[Len(dataLayer)].event = "consent_updated"
    /\ loadSavedConsent(store)[1].types["analytics_storage"] = "granted"
    /\ loadSavedConsent(store)[1].types["ad_storage"] = "denied"

\* C35: every commerce event of the stream is self-consistent: its currency
\* is EUR and its value is the two-decimal number whose cents are the sum
\* of price x quantity over its own items, in exact arithmetic.
C35_EventSelfConsistent ==
    \A i \in 1..Len(dataLayer) :
       dataLayer[i].ecommerce # <<>>
          => /\ dataLayer[i].ecommerce[1].currency = CURRENCY
             /\ dataLayer[i].ecommerce[1].value
                   = Num(ExactCents(dataLayer[i].ecommerce[1].items))

\* C36: a page load that finds a persisted decision appends, after the
\* head's default, exactly one consent update call and one consent_updated
\* event carrying the persisted object, its saved timestamp included,
\* without any action of the user, and writes nothing to the store: the
\* persisted value and its timestamp are as before the load.
C36_ReplayOnLoad ==
    [][ (last'.op = "load" /\ loadSavedConsent(store) # Null)
           => LET persisted == loadSavedConsent(store)[1]
              IN /\ store' = store
                 /\ FxAt(last'.fx, "setItem") = {}
                 /\ loadSavedConsent(store')[1].timestamp
                       = persisted.timestamp
                 /\ Len(dataLayer') >= 3
                 /\ dataLayer'[2] = GtagEntry("update",
                                              UpdateParams(persisted))
                 /\ dataLayer'[3] = ConsentEntry(persisted)
                 /\ Len(ConsentEvents(dataLayer')) = 1
                 /\ Cardinality({ i \in 1..Len(dataLayer') :
                                     /\ dataLayer'[i].kind = "gtag"
                                     /\ dataLayer'[i].command = "update" })
                       = 1 ]_vars

\* a page has just loaded, two operations after accept-all was saved at
\* time 1: the stream replays the decision with that timestamp
C36_Witness ==
    /\ last.op = "load"
    /\ clock = 3
    /\ loadSavedConsent(store) # Null
    /\ loadSavedConsent(store)[1].timestamp = 1
    /\ dataLayer[3].event = "consent_updated"
    /\ dataLayer[3].consent[1].timestamp = 1
    /\ dataLayer[3].consent[1].types["analytics_storage"] = "granted"

\* the positions of the events of a name in the stream
EventsAt(name) == { i \in 1..Len(dataLayer) : dataLayer[i].event = name }

\* the position of the most recent begin_checkout event before position i
\* (0: none)
CheckoutBefore(i) ==
    LET J == { j \in EventsAt("begin_checkout") : j < i }
    IN IF J = {} THEN 0 ELSE CHOOSE j \in J : \A k \in J : k <= j

\* C37 as stated: on the basket page every purchase event is preceded in
\* the stream by a begin_checkout event, and its items and value equal
\* those of the most recent begin_checkout event.
C37_PurchaseMatchesCheckout ==
    \A i \in EventsAt("purchase") :
       /\ CheckoutBefore(i) > 0
       /\ dataLayer[i].ecommerce[1].items
             = dataLayer[CheckoutBefore(i)].ecommerce[1].items
       /\ dataLayer[i].ecommerce[1].value
             = dataLayer[CheckoutBefore(i)].ecommerce[1].value

\* C37: on the basket page every purchase event is preceded in the stream
\* by a begin_checkout event; the first purchase event after a
\* begin_checkout event has the items and the value of that event, which
\* are not empty, and every further purchase event before the next
\* begin_checkout (a repeated submit) has no items and value 0.
C37_FirstPurchaseMatchesCheckout ==
    \A i \in EventsAt("purchase") :
       LET j == CheckoutBefore(i)
       IN /\ j > 0
          /\ dataLayer[j].ecommerce[1].items # <<>>
          /\ IF \E k \in EventsAt("purchase") : j < k /\ k < i
             THEN /\ dataLayer[i].ecommerce[1].items = <<>>
                  /\ dataLayer[i].ecommerce[1].value = Num(0)
             ELSE /\ dataLayer[i].ecommerce[1].items
                        = dataLayer[j].ecommerce[1].items
                  /\ dataLayer[i].ecommerce[1].value
                        = dataLayer[j].ecommerce[1].value

\* the form was submitted twice after one Proceed to Checkout on a basket
\* of two rows
C37_Witness ==
    /\ view = "checkout"
    /\ last.op = "finalize"
    /\ last.prev = "finalize"
    /\ Cardinality(EventsAt("begin_checkout")) = 1
    /\ Cardinality(EventsAt("purchase")) = 2
    /\ \E j \in EventsAt("begin_checkout") :
          Len(dataLayer[j].ecommerce[1].items) = 2
    /\ dataLayer[Len(dataLayer)].ecommerce[1].items = <<>>

\* the operations of the basket engine that are not the checkout finalizer
BasketOps == {"add", "remove", "setQuantity", "beginCheckout", "viewCart"}

\* C38: the engines write disjoint parts of the store: add, remove,
\* setQuantity, beginCheckout, viewCart and finalize never change the
\* persisted consent, and the first five never change the last order;
\* consent decisions and the consent replay of a page load never change
\* the persisted basket or the last order; only finalize writes the last
\* order, and only finalize deletes the basket key, which it does in the
\* call that writes the order.
C38_DisjointWrites ==
    [][ /\ last'.op \in BasketOps \cup {"finalize"}
           => store'[CONSENT_STORAGE_KEY] = store[CONSENT_STORAGE_KEY]
        /\ last'.op \in BasketOps
           => store'[ORDER_STORAGE_KEY] = store[ORDER_STORAGE_KEY]
        /\ last'.op \in DecisionOps \cup {"load"}
           => /\ store'[BASKET_STORAGE_KEY] = store[BASKET_STORAGE_KEY]
              /\ store'[ORDER_STORAGE_KEY] = store[ORDER_STORAGE_KEY]
        /\ last'.op # "finalize"
           => /\ \A i \in 1..Len(last'.fx) :
                    /\ last'.fx[i] # Fx("setItem", ORDER_STORAGE_KEY)
                    /\ last'.fx[i] # Fx("removeItem", BASKET_STORAGE_KEY)
              /\ store'[ORDER_STORAGE_KEY] # store[ORDER_STORAGE_KEY]
                    => store'[ORDER_STORAGE_KEY] = Null
        /\ last'.op = "finalize"
           => /\ FxAt(last'.fx, "setItem")
                    = { i \in 1..Len(last'.fx) :
                           last'.fx[i] = Fx("setItem", ORDER_STORAGE_KEY) }
              /\ Cardinality(FxAt(last'.fx, "setItem")) = 1
              /\ FxAt(last'.fx, "removeItem")
                    = { i \in 1..Len(last'.fx) :
                           last'.fx[i] = Fx("removeItem",
                                            BASKET_STORAGE_KEY) }
              /\ Cardinality(FxAt(last'.fx, "removeItem")) = 1
              /\ store'[BASKET_STORAGE_KEY] = Null ]_vars

\* a basket of one row was checked out after a consent decision: the
\* decision is still persisted, the order is written, the basket deleted
C38_Witness ==
    /\ last.op = "finalize"
    /\ Len(last.arg.pre) = 1
    /\ loadSavedConsent(store) # Null
    /\ getLastOrder(store) # Null
    /\ store[BASKET_STORAGE_KEY] = Null

\* the stream positions shown in the log, most recent first
DisplayedAt(d) == [k \in 1..Len(d.display) |-> d.display[k].pos]

\* the positions handed over while the log element existed, last one first
RECURSIVE ShownAt(_)
ShownAt(handed) ==
    IF handed = <<>> THEN <<>>
    ELSE IF handed[Len(handed)].panel
    THEN <<handed[Len(handed)].pos>>
            \o ShownAt(SubSeq(handed, 1, Len(handed) - 1))
    ELSE ShownAt(SubSeq(handed, 1, Len(handed) - 1))

\* C39: the polling offset of the debug observer only grows within a page
\* and never exceeds the stream length; under every interleaving of engine
\* appends and poll ticks the entries handed to logDataLayerEvent are the
\* first offset entries of the stream, each once, in emission order; the
\* log shows exactly the entries handed over while the panel existed, so
\* an entry polled without a panel is counted as seen and never shown.
C39_PollingOffset ==
    [][ /\ debug'.count <= Len(dataLayer')
        /\ last'.op # "load" => debug'.count >= debug.count
        /\ last'.op = "pollTick" => debug'.count = Len(dataLayer')
        /\ Len(debug'.handed) = debug'.count
        /\ \A i \in 1..Len(debug'.handed) :
              /\ debug'.handed[i].pos = i
              /\ debug'.handed[i].entry = dataLayer'[i]
        /\ DisplayedAt(debug') = ShownAt(debug'.handed)
        /\ \A i \in 1..Len(debug'.handed) :
              ~debug'.handed[i].panel
                 => \A k \in 1..Len(debug'.display) :
                       debug'.display[k].pos # i ]_vars

\* the head's default was polled before the panel was opened; an add made
\* afterwards has been polled: the log shows its two entries, the add_to_cart
\* event on top, and not the default
C39_Witness ==
    /\ last.op = "pollTick"
    /\ debug.panel
    /\ debug.count = 3
    /\ Len(dataLayer) = 3
    /\ ~debug.handed[1].panel
    /\ DisplayedAt(debug) = <<3, 2>>
    /\ debug.display[1].entry.event = "add_to_cart"

=============================================================================
